---- MODULE Spec2Model ----
(***************************************************************************)
(* Operator console of the grumpyclaw agent runtime: the React views that  *)
(* merge REST snapshots with server-sent events (ChatPage, RuntimePage,    *)
(* LogsPage, ConversationPage) and the local capture sessions of           *)
(* DeviceTestPage.  One view is followed from its mount to its teardown.   *)
(*                                                                         *)
(* Strings are TLC strings; template literals are \o concatenations.       *)
(***************************************************************************)
EXTENDS Integers, Sequences, FiniteSets, TLC

\* ------------------------------------------------------------ bounds
\* events the environment delivers beyond the cap of a capped list
MaxOver == 2
\* robot.feedback events the chat stream carries in one run
MaxRobot == 1
\* requests of one kind that may be in flight at once
MaxInFlight == 1
\* listMessages calls that may be in flight at once
MaxMsgFetch == 2
\* New Session clicks in one run
MaxCreate == 1
\* LogsPage refresh() calls that may be in flight at once
MaxLogFetch == 2
\* log queries that fail in one run
MaxLogErrors == 1
\* events delivered in a run of the short specifications
MaxShort == 3
\* getUserMedia calls a DeviceTestPage run makes
MaxAcquire == 3
\* actions the operator dispatches in one run
MaxCalls == 2
\* test tones a DeviceTestPage run plays
MaxTones == 2
\* live events of a ConversationPage run
MaxLive == 2

\* ------------------------------------------------------------ program constants
ChatEventsCap == 30
RuntimeEventsCap == 80
LiveCap == 100
HistoryLimit == 200

VARIABLES
    view,        \* the mounted view, "none" after its teardown
    streams,     \* URLs of the EventSource objects that are open
    opened,      \* URLs of every EventSource the view has created
    budget,      \* live events the environment will still deliver
    delivered,   \* live events delivered since the view mounted
    lastEv,      \* the live event delivered last (replayed by a reconnect)
    \* ChatPage
    sessions, selected, messages, chatEvents, robotSeen,
    sessFetch,   \* listSessions calls in flight: the `selected` each closure holds
    msgFetch,    \* listMessages calls in flight: the session id of each
    patchLog,    \* chat.token / chat.final events delivered since the last snapshot
    \* RuntimePage
    rtStatus, robotStatus, runtimeEvents,
    rtFetch,     \* refresh() calls in flight: the await each is suspended at
    \* LogsPage
    live,
    source, level, processName, eventType, queryText, items,
    logFetch,    \* refresh() calls in flight: the path each requested
    \* ConversationPage
    convStatus, timeline,
    statFetch,   \* loadStatus() calls in flight
    histFetch,   \* loadHistory() calls in flight
    \* DeviceTestPage
    media,       \* the MediaStreams getUserMedia has handed out: kind, tracks live or stopped
    contexts,    \* the AudioContexts testMic has created: running or closed
    frames,      \* requestAnimationFrame handles whose callback (tick) has not run yet
    micPending,  \* getUserMedia({audio}) calls in flight
    camPending,  \* getUserMedia({video}) calls in flight
    streamRef, audioContextRef, analyserRef, animationRef,
    srcObject,   \* videoEl.srcObject
    micLevel, micActive, micStatus, cameraActive, cameraStatus,
    micStopped,  \* the operator pressed Stop after the last Start mic test
    releaseLog,  \* the handles the last stopMic() released, in the order of its statements
    speakerStatus,
    tones,       \* the AudioContexts testSpeaker has created: running or closed
    toneTimers,  \* the testSpeaker runs suspended at their 350 ms timer: their context
    \* RobotPage
    confirm, result,
    \* SkillsPage
    skills, output,
    \* HeartbeatPage
    latest, hbHistory,
    \* ChatPage form, ConversationPage busy flag
    text, busy,
    \* Request Client
    calls,       \* req() calls awaiting their response: op, request, captured argument
    sent,        \* every fetch() issued by req(), in order
    outcomes,    \* the req() calls that settled: request, response, result
    consoleLog,  \* errors that reached only the console (console.error, unhandled rejection)
    \* api.logs
    logFilters,  \* the filters object api.logs is called with
    logPath,     \* the path api.logs requests, Null before the call
    \* network
    overlap      \* listMessages calls the run lets be in flight at once

streamVars == <<view, streams, opened, budget, delivered, lastEv>>
chatVars == <<sessions, selected, messages, chatEvents, robotSeen, sessFetch, msgFetch, patchLog>>
runtimeVars == <<rtStatus, robotStatus, runtimeEvents, rtFetch>>
filterVars == <<source, level, processName, eventType, queryText>>
logsVars == <<live, filterVars, items, logFetch>>
convVars == <<convStatus, timeline, statFetch, histFetch>>
micVars == <<contexts, frames, micPending, streamRef, audioContextRef, analyserRef, animationRef,
             micLevel, micActive, micStatus, micStopped, releaseLog>>
camVars == <<camPending, srcObject, cameraActive, cameraStatus>>
spkVars == <<speakerStatus, tones, toneTimers>>
devVars == <<media, micVars, camVars, spkVars>>
robotPageVars == <<confirm, result>>
skillsVars == <<skills, output>>
heartbeatVars == <<latest, hbHistory>>
formVars == <<text, busy>>
reqVars == <<calls, sent, outcomes, consoleLog>>
queryVars == <<logFilters, logPath>>
netVars == <<overlap>>
dispatchVars ==
    <<robotPageVars, skillsVars, heartbeatVars, formVars, reqVars, queryVars, netVars>>
vars == <<streamVars, chatVars, runtimeVars, logsVars, convVars, devVars, dispatchVars>>

\* the state of the views an action does not belong to
notChat == <<runtimeVars, logsVars, convVars, devVars, dispatchVars>>
notRuntime == <<chatVars, logsVars, convVars, devVars, dispatchVars>>
notLogs == <<chatVars, runtimeVars, convVars, devVars, dispatchVars>>
notConv == <<chatVars, runtimeVars, logsVars, devVars, dispatchVars>>
notDevice == <<chatVars, runtimeVars, logsVars, convVars, dispatchVars>>

\* ------------------------------------------------------------ helpers
Min(a, b) == IF a < b THEN a ELSE b

NoEvent == [type |-> "none", stream |-> ""]

\* Array.prototype.slice(0, n)
Slice(s, n) == SubSeq(s, 1, Min(Len(s), n))

\* faulty variant of PushFront: the slice is forgotten
PushFrontUncapped(entry, prev, cap) == <<entry>> \o prev

\* faulty variant of PushFront: a full list gives up its newest entry
PushFrontEvictsNewest(entry, prev, cap) ==
    IF Len(prev) < cap THEN <<entry>> \o prev ELSE <<entry>> \o Tail(prev)

\* [entry, ...prev].slice(0, cap)
PushFront(entry, prev, cap) == Slice(<<entry>> \o prev, cap)

\* Array.prototype.map
Map(f(_), s) == [i \in 1..Len(s) |-> f(s[i])]

ApiOrigin == "http://localhost:8001"

\* makeSse(path): the EventSource URL
MakeSse(path) == ApiOrigin \o "/api/v1" \o path

ChatTopic(id) == MakeSse("/chat/sessions/" \o id \o "/stream")
RuntimeTopic == MakeSse("/runtime/events/stream")
ConversationTopic == MakeSse("/assistant/realtime/stream")

\* new EventSource(url)
OpenStream(ss, url) == ss \cup {url}

\* faulty variant of CloseStream: the EventSource is left open
CloseStreamLeaks(ss, url) == ss

\* stream.close()
CloseStream(ss, url) == ss \ {url}

\* a sequence without its i-th element
RemoveAt(s, i) == SubSeq(s, 1, i - 1) \o SubSeq(s, i + 1, Len(s))

\* faulty variant of Dispatches: a closed EventSource still calls its listeners
DispatchesAfterClose(url) == TRUE

\* an EventSource calls its listeners only while it has not been closed
Dispatches(url) == url \in streams

\* the n-th line the backend emits on a stream
Serial(n) == "#" \o ToString(n)

\* one live event reaches its handler: the environment's bookkeeping
Deliver(ev) ==
    /\ budget > 0
    /\ budget' = budget - 1
    /\ delivered' = delivered + 1
    /\ lastEv' = ev

\* ------------------------------------------------------------ ChatPage
SessionList == <<[id |-> "s1", mode |-> "grumpyclaw", title |-> "one"],
                 [id |-> "s2", mode |-> "grumpyreachy", title |-> "two"]>>

\* the id the backend gives the n-th session created by a New Session click
CreatedId(n) == "s" \o ToString(Len(SessionList) + n)

\* what GET /assistant/sessions answers once n sessions have been created
ServerSessions(n) ==
    SessionList \o [k \in 1..n |-> [id |-> CreatedId(k), mode |-> "grumpyclaw", title |-> "new"]]

\* the sessions the backend has answered a createSession call with
CreatedCount ==
    Cardinality({i \in 1..Len(outcomes) : outcomes[i].op = "createSession" /\ outcomes[i].result.ok})

\* what the listSessions call of the mount effect may be answered with: the
\* backend handled it before or after any of the creations
ListAnswers == {ServerSessions(n) : n \in 0..CreatedCount}

\* what GET /chat/sessions/{id}/messages answers
Snapshot(id) ==
    IF id = "s1"
    THEN <<[id |-> "m1", role |-> "user", content |-> "hello", status |-> "final"],
           [id |-> "m2", role |-> "assistant", content |-> "Hi", status |-> "streaming"]>>
    ELSE <<[id |-> "m3", role |-> "assistant", content |-> "", status |-> "pending"]>>

\* the cleanup of the stream effect that ran for `sel`: nothing was opened for ""
EffectCleanup(ss, sel) == IF sel = "" THEN ss ELSE CloseStream(ss, ChatTopic(sel))

\* setSelected(id) with the stream effect it triggers: the cleanup of the
\* previous run closes the old stream, then refreshMessages(id) is started
\* and the new stream is opened.
SetSelected(id) ==
    /\ selected' = id
    /\ msgFetch' = Append(msgFetch, id)
    /\ streams' = OpenStream(EffectCleanup(streams, selected), ChatTopic(id))
    /\ opened' = opened \cup {ChatTopic(id)}

\* refreshSessions(): the listSessions response arrives
SessionsResponse ==
    /\ view = "chat"
    /\ sessFetch # <<>>
    /\ sessFetch' = Tail(sessFetch)
    /\ \E out \in ListAnswers :
          /\ sessions' = out
          /\ IF Head(sessFetch) = "" /\ Len(out) > 0 /\ out[1].id # selected
             THEN /\ Len(msgFetch) < overlap
                  /\ SetSelected(out[1].id)
             ELSE UNCHANGED <<selected, msgFetch, streams, opened>>
    /\ UNCHANGED <<view, budget, delivered, lastEv, messages, chatEvents, robotSeen, patchLog>>
    /\ UNCHANGED notChat

\* refreshMessages(id): the response of one of the listMessages calls in
\* flight arrives, and setMessages(out) puts it in the buffer
MessagesResponse ==
    /\ view = "chat"
    /\ \E i \in 1..Len(msgFetch) :
          /\ msgFetch' = RemoveAt(msgFetch, i)
          /\ messages' = Snapshot(msgFetch[i])
    /\ patchLog' = <<>>
    /\ UNCHANGED <<streamVars, sessions, selected, chatEvents, robotSeen, sessFetch>>
    /\ UNCHANGED notChat

ToolLine(payload) == payload.phase \o " " \o payload.tool_name \o ": " \o payload.message
RobotLine(payload) == "robot " \o payload.state \o ": " \o payload.message

\* faulty variant of ApplyToken: the fragment is put in front of the text
ApplyTokenPrepend(prev, payload) ==
    Map(LAMBDA m : IF m.id = payload.message_id
                   THEN [m EXCEPT !.content = payload.token \o m.content]
                   ELSE m, prev)

\* faulty variant of ApplyToken: the patched message is also marked as streaming
ApplyTokenMarks(prev, payload) ==
    Map(LAMBDA m : IF m.id = payload.message_id
                   THEN [m EXCEPT !.content = m.content \o payload.token, !.status = "streaming"]
                   ELSE m, prev)

\* the setMessages updater of the chat.token handler
ApplyToken(prev, payload) ==
    Map(LAMBDA m : IF m.id = payload.message_id
                   THEN [m EXCEPT !.content = m.content \o payload.token]
                   ELSE m, prev)

\* faulty variant of ApplyFinal: the content is appended as a token would be
ApplyFinalAppends(prev, payload) ==
    Map(LAMBDA m : IF m.id = payload.message_id
                   THEN [m EXCEPT !.content = m.content \o payload.content, !.status = "final"]
                   ELSE m, prev)

\* the setMessages updater of the chat.final handler
ApplyFinal(prev, payload) ==
    Map(LAMBDA m : IF m.id = payload.message_id
                   THEN [m EXCEPT !.content = payload.content, !.status = "final"]
                   ELSE m, prev)

\* the setEvents updater of the tool.event and robot.feedback handlers
ChatPushEvent(line, prev) == PushFront(line, prev, ChatEventsCap)

\* stream.addEventListener("chat.token", ...)
OnChatToken(ev) ==
    /\ messages' = ApplyToken(messages, ev.payload)
    /\ patchLog' = Append(patchLog, ev)
    /\ UNCHANGED <<view, streams, opened, sessions, selected, chatEvents, sessFetch, msgFetch>>
    /\ UNCHANGED notChat

\* stream.addEventListener("chat.final", ...)
OnChatFinal(ev) ==
    /\ messages' = ApplyFinal(messages, ev.payload)
    /\ patchLog' = Append(patchLog, ev)
    /\ UNCHANGED <<view, streams, opened, sessions, selected, chatEvents, sessFetch, msgFetch>>
    /\ UNCHANGED notChat

\* stream.addEventListener("tool.event", ...)
OnToolEvent(ev) ==
    /\ chatEvents' = ChatPushEvent(ToolLine(ev.payload), chatEvents)
    /\ UNCHANGED <<view, streams, opened, sessions, selected, messages, sessFetch, msgFetch, patchLog>>
    /\ UNCHANGED notChat

\* stream.addEventListener("robot.feedback", ...)
OnRobotFeedback(ev) ==
    /\ chatEvents' = ChatPushEvent(RobotLine(ev.payload), chatEvents)
    /\ UNCHANGED <<view, streams, opened, sessions, selected, messages, sessFetch, msgFetch, patchLog>>
    /\ UNCHANGED notChat

\* the listeners of the ChatPage stream `url` are called
ChatListening(url) == view = "chat" /\ Dispatches(url)

MessageIds == {"m2", "m3"}
Tokens == {" there", "!"}
FinalContents == {"Hi there!"}

ChatTokenEvent ==
    /\ \E url \in opened, id \in MessageIds, tok \in Tokens :
          LET ev == [type |-> "chat.token", stream |-> url,
                     payload |-> [message_id |-> id, token |-> tok]]
          IN ChatListening(url) /\ Deliver(ev) /\ OnChatToken(ev)
    /\ UNCHANGED robotSeen

ChatFinalEvent ==
    /\ \E url \in opened, id \in MessageIds, c \in FinalContents :
          LET ev == [type |-> "chat.final", stream |-> url,
                     payload |-> [message_id |-> id, content |-> c]]
          IN ChatListening(url) /\ Deliver(ev) /\ OnChatFinal(ev)
    /\ UNCHANGED robotSeen

ToolEvent ==
    /\ \E url \in opened :
          LET ev == [type |-> "tool.event", stream |-> url,
                     payload |-> [tool_name |-> "search", phase |-> "start",
                                  message |-> Serial(delivered + 1)]]
          IN ChatListening(url) /\ Deliver(ev) /\ OnToolEvent(ev)
    /\ UNCHANGED robotSeen

RobotFeedbackEvent ==
    /\ robotSeen < MaxRobot
    /\ robotSeen' = robotSeen + 1
    /\ \E url \in opened :
          LET ev == [type |-> "robot.feedback", stream |-> url,
                     payload |-> [state |-> "attention", message |-> Serial(delivered + 1)]]
          IN ChatListening(url) /\ Deliver(ev) /\ OnRobotFeedback(ev)

\* a session button is clicked: setSelected(s.id)
SelectSession ==
    /\ view = "chat"
    /\ Len(msgFetch) < overlap
    /\ \E i \in 1..Len(sessions) :
          /\ sessions[i].id # selected
          /\ SetSelected(sessions[i].id)
    /\ lastEv' = NoEvent
    /\ UNCHANGED <<view, budget, delivered, sessions, messages, chatEvents, robotSeen, sessFetch, patchLog>>
    /\ UNCHANGED notChat

\* ------------------------------------------------------------ RuntimePage
StatusBlobs == {"hb-idle", "hb-running"}
RobotBlobs == {"robot-up"}

\* refresh(): the first await
StartRefresh == rtFetch' = Append(rtFetch, "runtimeStatus")

\* the setEvents updater of the runtime.heartbeat handler
RuntimePushEvent(line, prev) == PushFront(line, prev, RuntimeEventsCap)

\* stream.addEventListener("runtime.heartbeat", ...)
OnHeartbeat(ev) ==
    /\ runtimeEvents' = RuntimePushEvent("runtime.heartbeat: " \o ev.payload, runtimeEvents)
    /\ StartRefresh
    /\ UNCHANGED <<view, streams, opened, rtStatus, robotStatus>>
    /\ UNCHANGED notRuntime

\* the listener of the RuntimePage stream `url` is called
RuntimeListening(url) == view = "runtime" /\ Dispatches(url) /\ Len(rtFetch) < MaxInFlight

HeartbeatEvent ==
    /\ \E url \in opened :
          LET ev == [type |-> "runtime.heartbeat", stream |-> url,
                     payload |-> Serial(delivered + 1)]
          IN RuntimeListening(url) /\ Deliver(ev) /\ OnHeartbeat(ev)

\* refresh(): api.runtimeStatus() answers, api.robotStatus() is requested
RuntimeStatusResponse ==
    /\ view \in {"runtime", "none"}
    /\ rtFetch # <<>> /\ Head(rtFetch) = "runtimeStatus"
    /\ \E blob \in StatusBlobs :
          rtStatus' = IF view = "runtime" THEN blob ELSE rtStatus
    /\ rtFetch' = <<"robotStatus">> \o Tail(rtFetch)
    /\ UNCHANGED <<streamVars, robotStatus, runtimeEvents>>
    /\ UNCHANGED notRuntime

\* refresh(): api.robotStatus() answers
RobotStatusResponse ==
    /\ view \in {"runtime", "none"}
    /\ rtFetch # <<>> /\ Head(rtFetch) = "robotStatus"
    /\ \E blob \in RobotBlobs :
          robotStatus' = IF view = "runtime" THEN blob ELSE robotStatus
    /\ rtFetch' = Tail(rtFetch)
    /\ UNCHANGED <<streamVars, rtStatus, runtimeEvents>>
    /\ UNCHANGED notRuntime

\* ------------------------------------------------------------ LogsPage
\* the setLive updater of the process.log handler
LivePush(line, prev) == PushFront(line, prev, LiveCap)

\* stream.addEventListener("process.log", ...)
OnProcessLog(ev) ==
    /\ live' = LivePush(ev.payload, live)
    /\ UNCHANGED <<filterVars, items, logFetch>>
    /\ UNCHANGED <<view, streams, opened>>
    /\ UNCHANGED notLogs

\* the listener of the LogsPage stream `url` is called
LogsListening(url) == view = "logs" /\ Dispatches(url)

ProcessLogEvent ==
    /\ \E url \in opened :
          LET ev == [type |-> "process.log", stream |-> url, payload |-> Serial(delivered + 1)]
          IN LogsListening(url) /\ Deliver(ev) /\ OnProcessLog(ev)

\* ------------------------------------------------------------ ConversationPage
\* an absent field of a payload (undefined)
Null == "<undefined>"

\* a ?? b
Coalesce(a, b) == IF a = Null THEN b ELSE a

\* JSON.stringify of a string
JsonString(str) == "\"" \o str \o "\""

\* JSON.stringify of an assistant.tool payload {name, result, ts}: absent keys are skipped
JsonToolPayload(p) ==
    LET nameField == IF p.name = Null THEN <<>> ELSE <<"\"name\":" \o JsonString(p.name)>>
        resultField ==
            IF p.result = Null THEN <<>> ELSE <<"\"result\":" \o JsonString(p.result)>>
        tsField == IF p.ts = Null THEN <<>> ELSE <<"\"ts\":" \o JsonString(p.ts)>>
        fields == nameField \o resultField \o tsField
        Join[i \in 0..Len(fields)] ==
            IF i = 0 THEN ""
            ELSE IF i = 1 THEN fields[1]
            ELSE Join[i - 1] \o "," \o fields[i]
    IN "{" \o Join[Len(fields)] \o "}"

\* JSON.stringify(payload.result ?? payload)
ToolContent(p) == IF p.result = Null THEN JsonToolPayload(p) ELSE JsonString(p.result)

\* what GET /assistant/realtime/history?limit=200 answers: the i-th stored row
HistoryRow(i) ==
    LET created == "2026-01-01T08:" \o ToString(i) \o "Z"
    IN CASE i % 3 = 1 ->
              [id |-> i, event_type |-> "assistant.realtime.transcript", created_at |-> created,
               payload |-> [role |-> "user", content |-> "row " \o ToString(i), name |-> Null,
                            result |-> Null, ts |-> Null]]
         [] i % 3 = 2 ->
              [id |-> i, event_type |-> "assistant.tool", created_at |-> created,
               payload |-> [role |-> Null, content |-> Null, name |-> "search",
                            result |-> "ok", ts |-> "2026-01-01T09:00Z"]]
         [] OTHER ->
              [id |-> i, event_type |-> "assistant.realtime.status", created_at |-> created,
               payload |-> [role |-> Null, content |-> Null, name |-> Null,
                            result |-> Null, ts |-> Null]]

HistoryRows(n) == [i \in 1..n |-> HistoryRow(i)]

\* the snapshot sizes the backend answers with (it honours limit=200)
SmallHistory == 2
HistorySizes == {0, SmallHistory, HistoryLimit}

\* loadHistory(): rows.map(...)
MapRow(row) ==
    LET ts == Coalesce(row.payload.ts, row.created_at)
    IN IF row.event_type = "assistant.realtime.transcript"
       THEN [id |-> ToString(row.id), ts |-> ts, kind |-> "transcript",
             label |-> Coalesce(row.payload.role, "transcript"),
             content |-> Coalesce(row.payload.content, "")]
       ELSE IF row.event_type = "assistant.tool"
       THEN [id |-> ToString(row.id), ts |-> ts, kind |-> "tool",
             label |-> Coalesce(row.payload.name, "tool"),
             content |-> ToolContent(row.payload)]
       ELSE [id |-> ToString(row.id), ts |-> ts, kind |-> "status",
             label |-> "status", content |-> "{}"]

\* new Date().toISOString() at the time a live event is handled
Now == "2026-01-01T12:00Z"

\* crypto.randomUUID(): a value no earlier call returned
RandomUUID == "uuid-" \o ToString(delivered + 1)

TranscriptPayloads ==
    {[role |-> "assistant", content |-> "hello", ts |-> "2026-01-01T07:00Z"],
     [role |-> Null, content |-> Null, ts |-> Null]}

ToolPayloads ==
    {[name |-> "search", result |-> "ok", ts |-> "2026-01-01T09:00Z"],
     [name |-> Null, result |-> Null, ts |-> Null]}

\* the setTimeline updater of the two live handlers
TimelineAppend(entry, prev) == prev \o <<entry>>

\* the timestamps an entry of the timeline can carry
Timestamps ==
    {HistoryRow(i).created_at : i \in 1..HistoryLimit}
        \cup {"2026-01-01T07:00Z", "2026-01-01T09:00Z", Now}

\* the decimal digits of a natural number, most significant first
Digits(n) ==
    IF n < 10 THEN <<n>>
    ELSE IF n < 100 THEN <<n \div 10, n % 10>>
    ELSE <<n \div 100, (n \div 10) % 10, n % 10>>

\* the collation weights of the characters of a timestamp after the common
\* prefix "2026-01-01T": ":" is 0, the digit d is d + 1, "Z" is 11
CollationKey(ts) ==
    CASE ts = "2026-01-01T07:00Z" -> <<1, 8, 0, 1, 1, 11>>
      [] ts = "2026-01-01T09:00Z" -> <<1, 10, 0, 1, 1, 11>>
      [] ts = Now -> <<2, 3, 0, 1, 1, 11>>
      [] OTHER ->
            LET i == CHOOSE k \in 1..HistoryLimit : HistoryRow(k).created_at = ts
            IN <<1, 9, 0>> \o [d \in 1..Len(Digits(i)) |-> Digits(i)[d] + 1] \o <<11>>

\* one key collates before another: at the first difference, or as a proper prefix
KeyLess(a, b) ==
    \E k \in 1..Len(b) :
        /\ \A j \in 1..(k - 1) : j <= Len(a) /\ a[j] = b[j]
        /\ k > Len(a) \/ (k - 1 < Len(a) /\ a[k] < b[k])

\* the collation key of every timestamp
TsKey == [ts \in Timestamps |-> CollationKey(ts)]

\* the place of each timestamp in the collation order
TsRank ==
    [ts \in Timestamps |-> Cardinality({u \in Timestamps : KeyLess(TsKey[u], TsKey[ts])})]

\* a.localeCompare(b): negative, zero or positive
LocaleCompare(a, b) ==
    IF TsRank[a] < TsRank[b] THEN -1 ELSE IF TsRank[a] > TsRank[b] THEN 1 ELSE 0

\* a sort that is not stable: of two entries that compare equal, the later
\* one comes first
ComesFirstUnstable(rank, j, i) == rank[j] < rank[i] \/ (rank[j] = rank[i] /\ j > i)

\* Array.prototype.sort is stable: entry j ends before entry i when it
\* compares less (its timestamp has the lower rank), or compares equal and
\* stood before it
ComesFirst(rank, j, i) == rank[j] < rank[i] \/ (rank[j] = rank[i] /\ j < i)

\* ordered = [...timeline].sort((a, b) => a.ts.localeCompare(b.ts));
\* (\o <<>> makes each intermediate array an explicit sequence)
Ordered(entries) ==
    LET n == Len(entries)
        rank == [i \in 1..n |-> TsRank[entries[i].ts]] \o <<>>
        place ==
            [i \in 1..n |-> 1 + Cardinality({j \in 1..n : ComesFirst(rank, j, i)})] \o <<>>
    IN [p \in 1..n |-> entries[CHOOSE i \in 1..n : place[i] = p]] \o <<>>

\* loadStatus() is called
StartLoadStatus == statFetch' = statFetch + 1

\* stream.addEventListener("assistant.realtime.transcript", ...)
OnTranscript(ev) ==
    /\ timeline' = TimelineAppend(
           [id |-> RandomUUID, ts |-> Coalesce(ev.payload.ts, Now), kind |-> "transcript",
            label |-> Coalesce(ev.payload.role, "transcript"),
            content |-> Coalesce(ev.payload.content, "")], timeline)
    /\ UNCHANGED <<view, streams, opened, convStatus, statFetch, histFetch>>
    /\ UNCHANGED notConv

\* stream.addEventListener("assistant.tool", ...)
OnAssistantTool(ev) ==
    /\ timeline' = TimelineAppend(
           [id |-> RandomUUID, ts |-> Coalesce(ev.payload.ts, Now), kind |-> "tool",
            label |-> Coalesce(ev.payload.name, "tool"),
            content |-> ToolContent(ev.payload)], timeline)
    /\ UNCHANGED <<view, streams, opened, convStatus, statFetch, histFetch>>
    /\ UNCHANGED notConv

\* stream.addEventListener("assistant.realtime.status", ...)
OnRealtimeStatus(ev) ==
    /\ StartLoadStatus
    /\ UNCHANGED <<view, streams, opened, convStatus, timeline, histFetch>>
    /\ UNCHANGED notConv

\* the listeners of the ConversationPage stream `url` are called
ConversationListening(url) == view = "conversation" /\ Dispatches(url)

TranscriptEvent ==
    /\ \E url \in opened, payload \in TranscriptPayloads :
          LET ev == [type |-> "assistant.realtime.transcript", stream |-> url,
                     payload |-> payload]
          IN ConversationListening(url) /\ Deliver(ev) /\ OnTranscript(ev)

AssistantToolEvent ==
    /\ \E url \in opened, payload \in ToolPayloads :
          LET ev == [type |-> "assistant.tool", stream |-> url, payload |-> payload]
          IN ConversationListening(url) /\ Deliver(ev) /\ OnAssistantTool(ev)

RealtimeStatusEvent ==
    /\ statFetch < MaxInFlight
    /\ \E url \in opened :
          LET ev == [type |-> "assistant.realtime.status", stream |-> url, payload |-> Null]
          IN ConversationListening(url) /\ Deliver(ev) /\ OnRealtimeStatus(ev)

\* loadStatus(): the request answers (a status blob) or fails (null)
StatusResponse ==
    /\ view \in {"conversation", "none"}
    /\ statFetch > 0
    /\ statFetch' = statFetch - 1
    /\ \E s \in {"running", "stopped", "null"} :
          convStatus' = IF view = "conversation" THEN s ELSE convStatus
    /\ UNCHANGED <<streamVars, timeline, histFetch>>
    /\ UNCHANGED notConv

\* loadHistory(): the request answers n rows
HistoryResponse ==
    /\ view \in {"conversation", "none"}
    /\ histFetch > 0
    /\ histFetch' = histFetch - 1
    /\ \E n \in HistorySizes :
          timeline' = IF view = "conversation" THEN Map(MapRow, HistoryRows(n)) ELSE timeline
    /\ UNCHANGED <<streamVars, convStatus, statFetch>>
    /\ UNCHANGED notConv

\* loadHistory(): the request fails
HistoryFailure ==
    /\ view \in {"conversation", "none"}
    /\ histFetch > 0
    /\ histFetch' = histFetch - 1
    /\ timeline' = IF view = "conversation" THEN <<>> ELSE timeline
    /\ UNCHANGED <<streamVars, convStatus, statFetch>>
    /\ UNCHANGED notConv

\* the Reload History button
ReloadHistory ==
    /\ view = "conversation"
    /\ ~busy
    /\ histFetch < MaxInFlight
    /\ histFetch' = histFetch + 1
    /\ UNCHANGED <<streamVars, convStatus, timeline, statFetch>>
    /\ UNCHANGED notConv

\* ------------------------------------------------------------ Request Client
\* the 2xx body the backend answers an operation with
OkBody(op) ==
    CASE op = "listSkills" -> "[{\"id\":\"sk1\",\"name\":\"Skill\",\"preview\":\"...\"}]"
      [] op = "heartbeatHistory" -> "[{\"status\":\"HEARTBEAT_OK\"}]"
      [] op = "realtimeStatus" -> "{\"running\":true}"
      [] OTHER -> "{\"ok\":true,\"content\":\"done\"}"

\* what fetch() resolves with for a call of an operation
HttpResponses(op) ==
    {[status |-> 200, body |-> OkBody(op)],
     [status |-> 500, body |-> "Internal Server Error"],
     [status |-> 409, body |-> "{\"detail\":\"confirmation required\"}"]}

\* Response.ok
Ok(res) == res.status >= 200 /\ res.status <= 299

\* a JSON value, kept as the text that denotes it
Json(body) == [json |-> body]

\* undefined
NoValue == Json("undefined")

\* res.json()
ParseJson(body) == Json(body)

\* out.content of a parsed value
ContentOf(v) == IF v = Json("{\"ok\":true,\"content\":\"done\"}") THEN "done" ELSE Null

\* the elements of a parsed array
ItemsOf(v) ==
    CASE v = Json("[{\"id\":\"sk1\",\"name\":\"Skill\",\"preview\":\"...\"}]") ->
             <<[id |-> "sk1", name |-> "Skill", preview |-> "..."]>>
      [] v = Json("[{\"status\":\"HEARTBEAT_OK\"}]") -> <<[status |-> "HEARTBEAT_OK"]>>
      [] OTHER -> <<>>

\* JSON.stringify(out, null, 2)
Stringify2(out) ==
    IF out = Json("{\"ok\":true,\"content\":\"done\"}")
    THEN "{\n  \"ok\": true,\n  \"content\": \"done\"\n}"
    ELSE out.json

\* faulty variant of ReqResult: a non-2xx answer is parsed and returned like a 2xx one
ReqResultFallback(res) == [ok |-> TRUE, value |-> ParseJson(res.body), error |-> ""]

\* req(): what the call settles with once fetch() has resolved with res
ReqResult(res) ==
    IF Ok(res)
    THEN [ok |-> TRUE, value |-> ParseJson(res.body), error |-> ""]
    ELSE [ok |-> FALSE, value |-> NoValue, error |-> res.body]

\* a request without a body
NoBody == [absent |-> TRUE]

Request(method, path, body) == [method |-> method, path |-> path, body |-> body]

\* req(path, init): one fetch() is issued and the caller is suspended on it
Call(op, request, arg) ==
    /\ calls' = Append(calls, [op |-> op, request |-> request, arg |-> arg])
    /\ sent' = Append(sent, request)

\* the i-th pending call settles with response res
Settle(i, res) ==
    outcomes' = Append(outcomes, [op |-> calls[i].op, request |-> calls[i].request,
                                  response |-> res, result |-> ReqResult(res)])

\* the caller of the i-th call returns without a further request
Return(i) ==
    /\ calls' = RemoveAt(calls, i)
    /\ UNCHANGED sent

\* the caller of the i-th call goes on with a further req() call
Continue(i, op, request, arg) ==
    /\ calls' = Append(RemoveAt(calls, i), [op |-> op, request |-> request, arg |-> arg])
    /\ sent' = Append(sent, request)

\* a rejection nobody catches, or one handed to console.error
LogError(out) == consoleLog' = Append(consoleLog, out.error)

\* the pending calls of an operation
Pending(ops) == {i \in 1..Len(calls) : calls[i].op \in ops}

\* ------------------------------------------------------------ RobotPage
DefaultLook == [x |-> "0.35", y |-> "0", z |-> "0.1", duration |-> "1"]
AntennaStates == {"attention"}
SpeakTexts == {"Hello from grumpyadmin"}

NodPayload == [action |-> "nod"]
AntennaPayload(st) == [action |-> "antenna_feedback", state |-> st]
LookPayload(look, c) ==
    [action |-> "look_at", x |-> look.x, y |-> look.y, z |-> look.z,
     duration |-> look.duration, confirm |-> c]

\* faulty variant of SpeakPayload: the marker stays once it was set
SpeakPayloadSticky(t, c) == [action |-> "speak", text |-> t, confirm |-> TRUE]

SpeakPayload(t, c) == [action |-> "speak", text |-> t, confirm |-> c]

\* the dispatches of one run that do not change anything but the Request Client
OnlyRequest ==
    /\ UNCHANGED <<outcomes, consoleLog>>
    /\ UNCHANGED <<robotPageVars, skillsVars, heartbeatVars, formVars, queryVars, netVars>>
    /\ UNCHANGED <<streamVars, chatVars, runtimeVars, logsVars, convVars, devVars>>

\* the "Confirm risky actions" checkbox
ToggleConfirm ==
    /\ view = "robot"
    /\ confirm' = ~confirm
    /\ UNCHANGED <<result, skillsVars, heartbeatVars, formVars, reqVars, queryVars, netVars>>
    /\ UNCHANGED <<streamVars, chatVars, runtimeVars, logsVars, convVars, devVars>>

\* run(payload) up to its await
Run(payload) ==
    /\ view = "robot"
    /\ Len(sent) < MaxCalls
    /\ Call("robotAction", Request("POST", "/robot/actions", payload), "")
    /\ OnlyRequest

ClickNod == Run(NodPayload)
ClickAntenna == \E st \in AntennaStates : Run(AntennaPayload(st))
ClickLook == Run(LookPayload(DefaultLook, confirm))
ClickSpeak == \E t \in SpeakTexts : Run(SpeakPayload(t, confirm))

\* run(payload) after its await
RobotActionSettled ==
    \E i \in Pending({"robotAction"}) : \E res \in HttpResponses("robotAction") :
        LET out == ReqResult(res)
        IN /\ Settle(i, res)
           /\ Return(i)
           /\ IF out.ok
              THEN /\ result' = (IF view = "robot" THEN Stringify2(out.value) ELSE result)
                   /\ UNCHANGED consoleLog
              ELSE /\ LogError(out)
                   /\ UNCHANGED result
           /\ UNCHANGED <<confirm, skillsVars, heartbeatVars, formVars, queryVars, netVars>>
           /\ UNCHANGED <<streamVars, chatVars, runtimeVars, logsVars, convVars, devVars>>

\* ------------------------------------------------------------ SkillsPage
\* SkillsPage.refresh() after its await
ListSkillsSettled ==
    \E i \in Pending({"listSkills"}) : \E res \in HttpResponses("listSkills") :
        LET out == ReqResult(res)
        IN /\ Settle(i, res)
           /\ Return(i)
           /\ IF out.ok
              THEN /\ skills' = (IF view = "skills" THEN ItemsOf(out.value) ELSE skills)
                   /\ UNCHANGED consoleLog
              ELSE /\ LogError(out)
                   /\ UNCHANGED skills
           /\ UNCHANGED <<output, robotPageVars, heartbeatVars, formVars, queryVars, netVars>>
           /\ UNCHANGED <<streamVars, chatVars, runtimeVars, logsVars, convVars, devVars>>

\* a Run button: run(s.id) up to its await
RunSkill ==
    /\ view = "skills"
    /\ Len(sent) < MaxCalls
    /\ \E k \in 1..Len(skills) :
          Call("runSkill", Request("POST", "/skills/run", [skill_id |-> skills[k].id]), "")
    /\ OnlyRequest

\* SkillsPage.run() after its await
RunSkillSettled ==
    \E i \in Pending({"runSkill"}) : \E res \in HttpResponses("runSkill") :
        LET out == ReqResult(res)
        IN /\ Settle(i, res)
           /\ Return(i)
           /\ IF out.ok
              THEN /\ output' = (IF view = "skills" THEN ContentOf(out.value) ELSE output)
                   /\ UNCHANGED consoleLog
              ELSE /\ LogError(out)
                   /\ UNCHANGED output
           /\ UNCHANGED <<skills, robotPageVars, heartbeatVars, formVars, queryVars, netVars>>
           /\ UNCHANGED <<streamVars, chatVars, runtimeVars, logsVars, convVars, devVars>>

\* ------------------------------------------------------------ HeartbeatPage
\* the Run Heartbeat Now button: run() up to its first await
RunHeartbeat ==
    /\ view = "heartbeat"
    /\ Len(sent) < MaxCalls
    /\ Call("evaluateHeartbeat", Request("POST", "/heartbeat/evaluate", NoBody), "")
    /\ OnlyRequest

\* HeartbeatPage.run() after its first await: setLatest(out), then refresh()
EvaluateSettled ==
    \E i \in Pending({"evaluateHeartbeat"}) : \E res \in HttpResponses("evaluateHeartbeat") :
        LET out == ReqResult(res)
        IN /\ Settle(i, res)
           /\ IF out.ok
              THEN /\ latest' = (IF view = "heartbeat" THEN out.value ELSE latest)
                   /\ Continue(i, "heartbeatHistory",
                               Request("GET", "/heartbeat/history", NoBody), "run")
                   /\ UNCHANGED consoleLog
              ELSE /\ LogError(out)
                   /\ Return(i)
                   /\ UNCHANGED latest
           /\ UNCHANGED <<hbHistory, robotPageVars, skillsVars, formVars, queryVars, netVars>>
           /\ UNCHANGED <<streamVars, chatVars, runtimeVars, logsVars, convVars, devVars>>

\* HeartbeatPage.refresh() after its await
HeartbeatHistorySettled ==
    \E i \in Pending({"heartbeatHistory"}) : \E res \in HttpResponses("heartbeatHistory") :
        LET out == ReqResult(res)
        IN /\ Settle(i, res)
           /\ Return(i)
           /\ IF out.ok
              THEN /\ hbHistory' = (IF view = "heartbeat" THEN ItemsOf(out.value) ELSE hbHistory)
                   /\ UNCHANGED consoleLog
              ELSE /\ LogError(out)
                   /\ UNCHANGED hbHistory
           /\ UNCHANGED <<latest, robotPageVars, skillsVars, formVars, queryVars, netVars>>
           /\ UNCHANGED <<streamVars, chatVars, runtimeVars, logsVars, convVars, devVars>>

\* ------------------------------------------------------------ RuntimePage actions
HeartbeatActs == {"start", "stop", "run-now"}
RobotActs == {"start", "stop", "restart"}

\* a heartbeat button: heartbeatAct(action) up to its first await
HeartbeatAct ==
    /\ view = "runtime"
    /\ Len(sent) < MaxCalls
    /\ \E a \in HeartbeatActs :
          Call("runtimeAct", Request("POST", "/runtime/heartbeat/" \o a, NoBody), "")
    /\ OnlyRequest

\* a robot service button: robotAct(action) up to its first await
RobotAct ==
    /\ view = "runtime"
    /\ Len(sent) < MaxCalls
    /\ \E a \in RobotActs : Call("runtimeAct", Request("POST", "/robot/" \o a, NoBody), "")
    /\ OnlyRequest

\* heartbeatAct / robotAct after the first await: refresh() is awaited
RuntimeActSettled ==
    \E i \in Pending({"runtimeAct"}) : \E res \in HttpResponses("runtimeAct") :
        LET out == ReqResult(res)
        IN /\ Settle(i, res)
           /\ Return(i)
           /\ IF out.ok
              THEN StartRefresh /\ UNCHANGED consoleLog
              ELSE LogError(out) /\ UNCHANGED rtFetch
           /\ UNCHANGED <<rtStatus, robotStatus, runtimeEvents>>
           /\ UNCHANGED <<robotPageVars, skillsVars, heartbeatVars, formVars, queryVars, netVars>>
           /\ UNCHANGED <<streamVars, chatVars, logsVars, convVars, devVars>>

\* ------------------------------------------------------------ ChatPage form
\* what the operator types into the message input
Texts == {" hi ", "  "}

\* String.prototype.trim on those texts
Trim(t) == CASE t = " hi " -> "hi" [] t = "  " -> "" [] OTHER -> t

\* the message input: onChange
TypeText ==
    /\ view = "chat"
    /\ \E t \in Texts : t # text /\ text' = t
    /\ UNCHANGED <<busy, robotPageVars, skillsVars, heartbeatVars, reqVars, queryVars, netVars>>
    /\ UNCHANGED <<streamVars, chatVars, runtimeVars, logsVars, convVars, devVars>>

\* onSubmit(ev) up to its first await
Submit ==
    /\ view = "chat"
    /\ selected # "" /\ Trim(text) # ""
    /\ Len(sent) < MaxCalls
    /\ Call("postMessage",
            Request("POST", "/assistant/sessions/" \o selected \o "/messages",
                    [content |-> Trim(text)]),
            selected)
    /\ OnlyRequest

\* faulty variant of TextAfterPost: the input is cleared whatever the answer
TextClearedAnyway(out, t) == ""

\* the input after api.postMessage settled: setText("") is reached only on success
TextAfterPost(out, t) == IF out.ok THEN "" ELSE t

\* onSubmit(ev) after its first await: setText(""), then refreshMessages(selected)
PostMessageSettled ==
    \E i \in Pending({"postMessage"}) : \E res \in HttpResponses("postMessage") :
        LET out == ReqResult(res)
        IN /\ Settle(i, res)
           /\ Return(i)
           /\ text' = (IF view = "chat" THEN TextAfterPost(out, text) ELSE text)
           /\ IF out.ok
              THEN /\ msgFetch' = Append(msgFetch, calls[i].arg)
                   /\ UNCHANGED consoleLog
              ELSE /\ LogError(out)
                   /\ UNCHANGED msgFetch
           /\ UNCHANGED <<sessions, selected, messages, chatEvents, robotSeen, sessFetch, patchLog>>
           /\ UNCHANGED <<busy, robotPageVars, skillsVars, heartbeatVars, queryVars, netVars>>
           /\ UNCHANGED <<streamVars, runtimeVars, logsVars, convVars, devVars>>

\* ------------------------------------------------------------ ChatPage New Session
SessionsPath == "/assistant/sessions"

\* the 2xx body of POST /assistant/sessions for the n-th session created
CreatedBody(n) == "{\"session_id\":\"" \o CreatedId(n) \o "\"}"

\* what fetch() resolves with for api.createSession
CreateResponses ==
    {[status |-> 200, body |-> CreatedBody(CreatedCount + 1)],
     [status |-> 500, body |-> "Internal Server Error"]}

\* created.session_id
SessionIdOf(v) ==
    IF \E n \in 1..MaxCreate : v = Json(CreatedBody(n))
    THEN CreatedId(CHOOSE n \in 1..MaxCreate : v = Json(CreatedBody(n)))
    ELSE Null

\* JSON.stringify of the first n elements of a session list, comma separated
RECURSIVE SessionsText(_, _)
SessionsText(list, n) ==
    IF n = 0 THEN ""
    ELSE SessionsText(list, n - 1) \o (IF n = 1 THEN "" ELSE ",")
             \o "{\"id\":\"" \o list[n].id \o "\"}"

\* the 2xx body of GET /assistant/sessions once n sessions have been created
ListBody(n) == "[" \o SessionsText(ServerSessions(n), Len(ServerSessions(n))) \o "]"

\* what fetch() resolves with for the api.listSessions that createSession
\* awaits: the backend handles it after it has created the session
ListResponses(created) ==
    {[status |-> 200, body |-> ListBody(n)] :
        n \in {k \in 1..CreatedCount : \E j \in 1..k : CreatedId(j) = created}}
    \cup {[status |-> 500, body |-> "Internal Server Error"]}

\* the parsed array of sessions
SessionsOf(v) ==
    IF \E n \in 0..MaxCreate : v = Json(ListBody(n))
    THEN ServerSessions(CHOOSE n \in 0..MaxCreate : v = Json(ListBody(n)))
    ELSE <<>>

\* the New Session button: createSession() up to api.createSession. The
\* closure of the render it was clicked in holds `selected`.
CreateSession ==
    /\ view = "chat"
    /\ Cardinality({i \in 1..Len(sent) : sent[i].method = "POST" /\ sent[i].path = SessionsPath})
           < MaxCreate
    /\ Call("createSession", Request("POST", SessionsPath, [mode |-> "grumpyclaw"]),
            [sel |-> selected, created |-> ""])
    /\ OnlyRequest

\* api.createSession settled: refreshSessions() of the same closure is
\* awaited, or the rejection leaves createSession()
CreateSessionSettled ==
    \E i \in Pending({"createSession"}) : \E res \in CreateResponses :
        LET out == ReqResult(res)
        IN /\ Settle(i, res)
           /\ IF out.ok
              THEN /\ Continue(i, "listSessions", Request("GET", SessionsPath, NoBody),
                               [sel |-> calls[i].arg.sel, created |-> SessionIdOf(out.value)])
                   /\ UNCHANGED consoleLog
              ELSE /\ Return(i)
                   /\ LogError(out)
           /\ UNCHANGED <<robotPageVars, skillsVars, heartbeatVars, formVars, queryVars, netVars>>
           /\ UNCHANGED <<streamVars, chatVars, runtimeVars, logsVars, convVars, devVars>>

\* the selection createSession() leaves: refreshSessions() calls
\* setSelected(out[0].id) when its closure holds no selection, then
\* setSelected(created.session_id) follows before the view renders
SelectedAfterCreate(list, sel, created) == created

\* the refreshSessions() awaited by createSession() settled: setSessions(out),
\* then the selection; a rejection leaves createSession() before setSelected
CreateListSettled ==
    \E i \in Pending({"listSessions"}) : \E res \in ListResponses(calls[i].arg.created) :
        LET out == ReqResult(res)
            list == SessionsOf(out.value)
            next == SelectedAfterCreate(list, calls[i].arg.sel, calls[i].arg.created)
        IN /\ Settle(i, res)
           /\ Return(i)
           /\ IF out.ok /\ view = "chat"
              THEN /\ sessions' = list
                   /\ IF next # selected
                      THEN /\ Len(msgFetch) < overlap
                           /\ SetSelected(next)
                      ELSE UNCHANGED <<selected, msgFetch, streams, opened>>
                   /\ UNCHANGED consoleLog
              ELSE /\ UNCHANGED <<sessions, selected, msgFetch, streams, opened>>
                   /\ IF out.ok THEN UNCHANGED consoleLog ELSE LogError(out)
           /\ UNCHANGED <<view, budget, delivered, lastEv>>
           /\ UNCHANGED <<messages, chatEvents, robotSeen, sessFetch, patchLog>>
           /\ UNCHANGED <<robotPageVars, skillsVars, heartbeatVars, formVars, queryVars, netVars>>
           /\ UNCHANGED <<runtimeVars, logsVars, convVars, devVars>>

\* ------------------------------------------------------------ ConversationPage actions
\* faulty variant of RealtimeAct: the buttons are not disabled while busy
RealtimeActWhileBusy(op, path) ==
    /\ view = "conversation"
    /\ Len(sent) < MaxCalls
    /\ busy' = TRUE
    /\ Call(op, Request("POST", path, NoBody), "")
    /\ UNCHANGED <<text, outcomes, consoleLog>>
    /\ UNCHANGED <<robotPageVars, skillsVars, heartbeatVars, queryVars, netVars>>
    /\ UNCHANGED <<streamVars, chatVars, runtimeVars, logsVars, convVars, devVars>>

\* startRealtime() / stopRealtime() up to the first await
RealtimeAct(op, path) ==
    /\ view = "conversation"
    /\ ~busy
    /\ Len(sent) < MaxCalls
    /\ busy' = TRUE
    /\ Call(op, Request("POST", path, NoBody), "")
    /\ UNCHANGED <<text, outcomes, consoleLog>>
    /\ UNCHANGED <<robotPageVars, skillsVars, heartbeatVars, queryVars, netVars>>
    /\ UNCHANGED <<streamVars, chatVars, runtimeVars, logsVars, convVars, devVars>>

\* the Start Realtime button (disabled while busy or running)
StartRealtime ==
    convStatus # "running" /\ RealtimeAct("realtimeStart", "/assistant/realtime/start")

\* the Stop Realtime button (disabled while busy or not running)
StopRealtime ==
    convStatus = "running" /\ RealtimeAct("realtimeStop", "/assistant/realtime/stop")

\* startRealtime() / stopRealtime() after the first await: loadStatus() is
\* awaited, or the finally block runs and the rejection leaves the function
RealtimeSettled ==
    \E i \in Pending({"realtimeStart", "realtimeStop"}) :
      \E res \in HttpResponses(calls[i].op) :
        LET out == ReqResult(res)
        IN /\ Settle(i, res)
           /\ IF out.ok
              THEN /\ Continue(i, "realtimeStatus",
                               Request("GET", "/assistant/realtime/status", NoBody), "")
                   /\ UNCHANGED <<busy, consoleLog>>
              ELSE /\ Return(i)
                   /\ busy' = (IF view = "conversation" THEN FALSE ELSE busy)
                   /\ LogError(out)
           /\ UNCHANGED <<text, robotPageVars, skillsVars, heartbeatVars, queryVars, netVars>>
           /\ UNCHANGED <<streamVars, chatVars, runtimeVars, logsVars, convVars, devVars>>

\* the running flag of a parsed status
StatusOf(v) == IF v = Json("{\"running\":true}") THEN "running" ELSE "stopped"

\* the loadStatus() awaited by startRealtime() / stopRealtime() settles, then
\* the finally block resets busy
RealtimeStatusSettled ==
    \E i \in Pending({"realtimeStatus"}) : \E res \in HttpResponses("realtimeStatus") :
        LET out == ReqResult(res)
            s == IF out.ok THEN StatusOf(out.value) ELSE "null"
        IN /\ Settle(i, res)
           /\ Return(i)
           /\ convStatus' = (IF view = "conversation" THEN s ELSE convStatus)
           /\ busy' = (IF view = "conversation" THEN FALSE ELSE busy)
           /\ UNCHANGED <<timeline, statFetch, histFetch>>
           /\ UNCHANGED <<text, consoleLog, robotPageVars, skillsVars, heartbeatVars, queryVars, netVars>>
           /\ UNCHANGED <<streamVars, chatVars, runtimeVars, logsVars, devVars>>

\* ------------------------------------------------------------ api.logs
\* an absent limit (undefined)
NoLimit == -1

NoFilters ==
    [source |-> Null, level |-> Null, process_name |-> Null, event_type |-> Null,
     q |-> Null, limit |-> NoLimit]

\* the filter objects api.logs is called with
FilterInputs ==
    [source : {Null, "", "runtime"}, level : {Null, "", "ERROR"},
     process_name : {Null, "", "runtime"}, event_type : {Null, "", "process.log"},
     q : {Null, "", "a b"}, limit : {NoLimit, 0, 200}]

\* the truthiness test `if (filters?.x)` on a string field
TruthyText(v) == v # Null /\ v # ""

\* the truthiness test `if (filters?.limit)`
TruthyLimit(n) == n # NoLimit /\ n # 0

\* params.set(key, value) on a key that is not set yet
ParamsSet(params, key, value) == Append(params, <<key, value>>)

\* faulty variant of LogsParams: empty strings are sent too
LogsParamsKeepEmpty(f) ==
    LET p1 == IF f.source # Null THEN ParamsSet(<<>>, "source", f.source) ELSE <<>>
        p2 == IF f.level # Null THEN ParamsSet(p1, "level", f.level) ELSE p1
        p3 == IF f.process_name # Null
              THEN ParamsSet(p2, "process_name", f.process_name) ELSE p2
        p4 == IF f.event_type # Null THEN ParamsSet(p3, "event_type", f.event_type) ELSE p3
        p5 == IF f.q # Null THEN ParamsSet(p4, "q", f.q) ELSE p4
    IN IF TruthyLimit(f.limit) THEN ParamsSet(p5, "limit", ToString(f.limit)) ELSE p5

\* the URLSearchParams api.logs fills, as its list of pairs
LogsParams(f) ==
    LET p1 == IF TruthyText(f.source) THEN ParamsSet(<<>>, "source", f.source) ELSE <<>>
        p2 == IF TruthyText(f.level) THEN ParamsSet(p1, "level", f.level) ELSE p1
        p3 == IF TruthyText(f.process_name)
              THEN ParamsSet(p2, "process_name", f.process_name) ELSE p2
        p4 == IF TruthyText(f.event_type)
              THEN ParamsSet(p3, "event_type", f.event_type) ELSE p3
        p5 == IF TruthyText(f.q) THEN ParamsSet(p4, "q", f.q) ELSE p4
    IN IF TruthyLimit(f.limit) THEN ParamsSet(p5, "limit", ToString(f.limit)) ELSE p5

\* application/x-www-form-urlencoded serialisation of the values in use
FormEncode(v) == IF v = "a b" THEN "a+b" ELSE v

\* URLSearchParams.prototype.toString
RECURSIVE ParamsToString(_)
ParamsToString(params) ==
    IF params = <<>> THEN ""
    ELSE LET pair == params[1][1] \o "=" \o FormEncode(params[1][2])
         IN IF Len(params) = 1 THEN pair ELSE pair \o "&" \o ParamsToString(Tail(params))

\* const suffix = params.size > 0 ? `?${params.toString()}` : ""
LogsSuffix(f) ==
    IF Len(LogsParams(f)) > 0 THEN "?" \o ParamsToString(LogsParams(f)) ELSE ""

\* the path api.logs hands to req()
LogsPath(f) == "/logs" \o LogsSuffix(f)

\* api.logs(filters) is called
LogsCall ==
    /\ logPath = Null
    /\ logPath' = LogsPath(logFilters)
    /\ UNCHANGED <<logFilters, robotPageVars, skillsVars, heartbeatVars, formVars, reqVars, netVars>>
    /\ UNCHANGED <<streamVars, chatVars, runtimeVars, logsVars, convVars, devVars>>

\* ------------------------------------------------------------ LogsPage stored logs
\* `x || undefined`
OrUndefined(x) == IF x = "" THEN Null ELSE x

\* the filters object refresh() hands to api.logs
RefreshFilters(src, lvl, proc, evt, q) ==
    [source |-> OrUndefined(src), level |-> OrUndefined(lvl),
     process_name |-> OrUndefined(proc), event_type |-> OrUndefined(evt),
     q |-> OrUndefined(q), limit |-> 200]

\* out.items of the answer to GET path: the stored logs the query matches
StoredLogs(path) == <<[matching |-> path]>>

\* refresh() up to its await, in a render whose state holds these values
Refresh(src, lvl, proc, evt, q) ==
    /\ Len(logFetch) < MaxLogFetch
    /\ logFilters' = RefreshFilters(src, lvl, proc, evt, q)
    /\ logPath' = LogsPath(logFilters')
    /\ logFetch' = Append(logFetch, logPath')
    /\ UNCHANGED <<live, items>>
    /\ UNCHANGED <<robotPageVars, skillsVars, heartbeatVars, formVars, reqVars, netVars>>
    /\ UNCHANGED <<streamVars, chatVars, runtimeVars, convVars, devVars>>

\* the values the operator picks or types
SourceOptions == {"", "runtime"}
LevelOptions == {"", "ERROR"}
ProcessNames == {"", "runtime"}
EventTypes == {"", "process.log"}
QueryTexts == {"", "a b"}

\* one of the two selects or of the process_name / event_type inputs changes:
\* the filter effect runs refresh() in the next render
SetFilter ==
    /\ view = "logs"
    /\ \E src \in SourceOptions, lvl \in LevelOptions, proc \in ProcessNames, evt \in EventTypes :
          /\ Cardinality({k \in 1..4 : <<src, lvl, proc, evt>>[k]
                                          # <<source, level, processName, eventType>>[k]}) = 1
          /\ source' = src /\ level' = lvl /\ processName' = proc /\ eventType' = evt
          /\ Refresh(src, lvl, proc, evt, queryText)
    /\ UNCHANGED queryText

\* the "contains text" input changes: no effect depends on it
SetQueryText ==
    /\ view = "logs"
    /\ \E q \in QueryTexts : q # queryText /\ queryText' = q
    /\ UNCHANGED <<live, source, level, processName, eventType, items, logFetch>>
    /\ UNCHANGED dispatchVars
    /\ UNCHANGED <<streamVars, chatVars, runtimeVars, convVars, devVars>>

\* the Refresh button
RefreshClick ==
    /\ view = "logs"
    /\ Refresh(source, level, processName, eventType, queryText)
    /\ UNCHANGED filterVars

\* refresh() after its await: the answer to one of the calls in flight, and
\* setItems(out.items)
LogsResponse ==
    /\ view \in {"logs", "none"}
    /\ \E i \in 1..Len(logFetch) :
          /\ logFetch' = RemoveAt(logFetch, i)
          /\ items' = (IF view = "logs" THEN StoredLogs(logFetch[i]) ELSE items)
    /\ UNCHANGED <<live, filterVars>>
    /\ UNCHANGED streamVars
    /\ UNCHANGED notLogs

\* refresh() rejects: console.error, or an unhandled rejection of the click
LogsFailure ==
    /\ view \in {"logs", "none"}
    /\ Len(consoleLog) < MaxLogErrors
    /\ \E i \in 1..Len(logFetch) : logFetch' = RemoveAt(logFetch, i)
    /\ consoleLog' = Append(consoleLog, "Internal Server Error")
    /\ UNCHANGED <<live, filterVars, items>>
    /\ UNCHANGED <<robotPageVars, skillsVars, heartbeatVars, formVars, queryVars, netVars>>
    /\ UNCHANGED <<calls, sent, outcomes>>
    /\ UNCHANGED <<streamVars, chatVars, runtimeVars, convVars, devVars>>

\* ------------------------------------------------------------ events no handler takes
\* the views that hold an EventSource
StreamViews == {"chat", "runtime", "logs", "conversation"}

\* the event types whose listener starts with JSON.parse(e.data)
ParsedTypes(v) ==
    CASE v = "chat" -> {"chat.token", "chat.final", "tool.event", "robot.feedback"}
      [] v = "conversation" -> {"assistant.realtime.transcript", "assistant.tool"}
      [] OTHER -> {}

\* an event whose data is not JSON: it carries the raw text, not a payload
Malformed(ev) == "data" \in DOMAIN ev

\* what no handler touches when an event is dispatched
Untouched ==
    /\ UNCHANGED <<view, opened>>
    /\ UNCHANGED <<chatVars, runtimeVars, logsVars, convVars, devVars>>
    /\ UNCHANGED <<robotPageVars, skillsVars, heartbeatVars, formVars, queryVars, netVars>>
    /\ UNCHANGED <<calls, sent, outcomes>>

\* faulty variant of OnUnhandled: an event of an unknown type ends the stream
OnUnhandledFatal(ev) ==
    /\ streams' = CloseStream(streams, ev.stream)
    /\ UNCHANGED consoleLog
    /\ Untouched

\* the EventSource dispatches an event of a type no listener was added for:
\* no code of the view runs
OnUnhandled(ev) ==
    /\ UNCHANGED <<streams, consoleLog>>
    /\ Untouched

\* faulty variant of OnMalformed: the listener catches the error and closes the stream
OnMalformedFatal(ev) ==
    /\ consoleLog' = Append(consoleLog, "SyntaxError")
    /\ streams' = CloseStream(streams, ev.stream)
    /\ Untouched

\* a listener runs on data that is not JSON: JSON.parse throws before any
\* setState call, the exception leaves the listener and is reported on the console
OnMalformed(ev) ==
    /\ consoleLog' = Append(consoleLog, "SyntaxError")
    /\ UNCHANGED streams
    /\ Untouched

\* the stream `url` of the mounted view dispatches events
Listening(url) == view \in StreamViews /\ Dispatches(url)

UnhandledEvent ==
    \E url \in opened :
        LET ev == [type |-> "unhandled", stream |-> url]
        IN Listening(url) /\ Deliver(ev) /\ OnUnhandled(ev)

MalformedEvent ==
    \E url \in opened, type \in ParsedTypes(view) :
        LET ev == [type |-> type, stream |-> url, data |-> "<html>"]
        IN Listening(url) /\ Deliver(ev) /\ OnMalformed(ev)

\* ------------------------------------------------------------ reconnect
\* The EventSource reconnects silently and the backend replays the event it
\* sent last: the handler of that event type runs on the same payload again.
Redeliver ==
    /\ lastEv.type # "none"
    /\ Deliver(lastEv)
    /\ IF lastEv.type = "unhandled" THEN Listening(lastEv.stream) /\ OnUnhandled(lastEv)
       ELSE IF Malformed(lastEv) THEN Listening(lastEv.stream) /\ OnMalformed(lastEv)
       ELSE
       CASE lastEv.type = "chat.token" -> ChatListening(lastEv.stream) /\ OnChatToken(lastEv)
         [] lastEv.type = "chat.final" -> ChatListening(lastEv.stream) /\ OnChatFinal(lastEv)
         [] lastEv.type = "tool.event" -> ChatListening(lastEv.stream) /\ OnToolEvent(lastEv)
         [] lastEv.type = "robot.feedback" ->
                ChatListening(lastEv.stream) /\ OnRobotFeedback(lastEv)
         [] lastEv.type = "runtime.heartbeat" ->
                RuntimeListening(lastEv.stream) /\ OnHeartbeat(lastEv)
         [] lastEv.type = "process.log" -> LogsListening(lastEv.stream) /\ OnProcessLog(lastEv)
         [] lastEv.type = "assistant.realtime.transcript" ->
                ConversationListening(lastEv.stream) /\ OnTranscript(lastEv)
         [] lastEv.type = "assistant.tool" ->
                ConversationListening(lastEv.stream) /\ OnAssistantTool(lastEv)
         [] OTHER -> /\ ConversationListening(lastEv.stream)
                     /\ statFetch < MaxInFlight
                     /\ OnRealtimeStatus(lastEv)
    /\ UNCHANGED robotSeen

\* ------------------------------------------------------------ teardown
\* the URL the stream effect of a view with a fixed topic opens
TopicOf(v) == IF v = "conversation" THEN ConversationTopic ELSE RuntimeTopic

\* the cleanup of the view's stream effect: stream.close()
Unmount ==
    /\ view \in {"chat", "runtime", "logs", "conversation", "robot", "skills", "heartbeat"}
    /\ view' = "none"
    /\ streams' = (IF view = "chat" THEN EffectCleanup(streams, selected)
                   ELSE CloseStream(streams, TopicOf(view)))
    /\ UNCHANGED <<opened, budget, delivered, lastEv>>
    /\ UNCHANGED <<chatVars, runtimeVars, logsVars, convVars, devVars, dispatchVars>>

\* ------------------------------------------------------------ mount
CapOf(v) ==
    CASE v = "chat" -> ChatEventsCap
      [] v = "runtime" -> RuntimeEventsCap
      [] v = "logs" -> LiveCap
      [] OTHER -> 0

\* live events the environment delivers to a view in one run
BudgetOf(v) == IF v = "conversation" THEN MaxShort ELSE CapOf(v) + MaxOver

\* the requests the mount effect of a view issues through req()
MountCalls(v) ==
    CASE v = "skills" ->
             <<[op |-> "listSkills", request |-> Request("GET", "/skills", NoBody), arg |-> ""]>>
      [] v = "heartbeat" ->
             <<[op |-> "heartbeatHistory",
                request |-> Request("GET", "/heartbeat/history", NoBody), arg |-> "mount"]>>
      [] OTHER -> <<>>

\* api.logs has not been called
QueryIdle == logFilters = NoFilters /\ logPath = Null

\* the network answers a listMessages call before the next one is made
InOrder == overlap = MaxInFlight

\* the state right after view v is mounted: the useState and useRef initial
\* values of every view, and what the mount effects of v have started
Mounted(v) ==
    /\ view = v
    /\ delivered = 0
    /\ lastEv = NoEvent
    /\ streams = (IF v \in {"runtime", "logs", "conversation"}
                  THEN OpenStream({}, TopicOf(v)) ELSE {})
    /\ opened = streams
    /\ sessions = <<>> /\ selected = "" /\ messages = <<>> /\ chatEvents = <<>>
    /\ robotSeen = 0 /\ msgFetch = <<>> /\ patchLog = <<>>
    /\ sessFetch = IF v = "chat" THEN <<"">> ELSE <<>>
    /\ rtStatus = "none" /\ robotStatus = "none" /\ runtimeEvents = <<>>
    /\ rtFetch = IF v = "runtime" THEN <<"runtimeStatus">> ELSE <<>>
    /\ live = <<>>
    /\ source = "" /\ level = "" /\ processName = "" /\ eventType = "" /\ queryText = ""
    /\ items = <<>>
    /\ logFetch = (IF v = "logs" THEN <<"/logs?limit=200">> ELSE <<>>)
    /\ convStatus = "null" /\ timeline = <<>>
    /\ statFetch = (IF v = "conversation" THEN 1 ELSE 0)
    /\ histFetch = (IF v = "conversation" THEN 1 ELSE 0)
    /\ media = <<>> /\ contexts = <<>> /\ frames = {}
    /\ micPending = 0 /\ camPending = 0
    /\ streamRef = 0 /\ audioContextRef = 0 /\ analyserRef = 0 /\ animationRef = 0
    /\ srcObject = 0
    /\ micLevel = 0 /\ micActive = FALSE /\ micStatus = ""
    /\ cameraActive = FALSE /\ cameraStatus = ""
    /\ micStopped = FALSE /\ releaseLog = <<>>
    /\ speakerStatus = "" /\ tones = <<>> /\ toneTimers = {}
    /\ confirm = FALSE /\ result = ""
    /\ skills = <<>> /\ output = ""
    /\ latest = Json("null") /\ hbHistory = <<>>
    /\ text = "" /\ busy = FALSE
    /\ calls = MountCalls(v)
    /\ sent = [i \in 1..Len(calls) |-> calls[i].request]
    /\ outcomes = <<>> /\ consoleLog = <<>>

\* A long burst of append events on one of the capped views.
InitTimeline ==
    \E v \in {"chat", "runtime", "logs", "conversation"} :
        Mounted(v) /\ budget = BudgetOf(v) /\ QueryIdle /\ InOrder

NextTimeline ==
    \/ SessionsResponse
    \/ MessagesResponse
    \/ ToolEvent
    \/ RobotFeedbackEvent
    \/ HeartbeatEvent
    \/ RuntimeStatusResponse
    \/ RobotStatusResponse
    \/ ProcessLogEvent
    \/ TranscriptEvent
    \/ AssistantToolEvent
    \/ RealtimeStatusEvent
    \/ StatusResponse
    \/ HistoryResponse
    \/ HistoryFailure
    \/ ReloadHistory
    \/ Unmount

SpecTimeline == InitTimeline /\ [][NextTimeline]_vars

\* A short run of any view, with every event type, session switches and
\* replays after a silent reconnect.
InitShort ==
    \E v \in {"chat", "runtime", "logs", "conversation"} :
        Mounted(v) /\ budget = MaxShort /\ QueryIdle /\ InOrder

NextShort ==
    \/ NextTimeline
    \/ SelectSession
    \/ ChatTokenEvent
    \/ ChatFinalEvent
    \/ Redeliver

SpecShort == InitShort /\ [][NextShort]_vars

\* A short run of any view whose stream also carries events of a type the
\* view has no listener for and events whose data is not JSON.
NextProtocol ==
    \/ NextTimeline
    \/ ChatTokenEvent
    \/ ChatFinalEvent
    \/ UnhandledEvent
    \/ MalformedEvent

SpecProtocol == InitShort /\ [][NextProtocol]_vars

\* ConversationPage alone: history loads, reloads and a few live events.
InitConversation == Mounted("conversation") /\ budget = MaxLive /\ QueryIdle /\ InOrder

NextConversation ==
    \/ TranscriptEvent
    \/ AssistantToolEvent
    \/ RealtimeStatusEvent
    \/ StatusResponse
    \/ HistoryResponse
    \/ HistoryFailure
    \/ ReloadHistory
    \/ Redeliver
    \/ Unmount

SpecConversation == InitConversation /\ [][NextConversation]_vars

\* ChatPage and ConversationPage with snapshot requests that overlap: the
\* operator switches the session while listMessages calls are in flight, and
\* live events come before the responses.
InitOverlap ==
    \E v \in {"chat", "conversation"} :
        Mounted(v) /\ budget = MaxLive /\ QueryIdle /\ overlap = MaxMsgFetch

NextOverlap ==
    \/ SessionsResponse
    \/ MessagesResponse
    \/ SelectSession
    \/ ChatTokenEvent
    \/ ChatFinalEvent
    \/ ToolEvent
    \/ TranscriptEvent
    \/ AssistantToolEvent
    \/ RealtimeStatusEvent
    \/ StatusResponse
    \/ HistoryResponse
    \/ HistoryFailure
    \/ ReloadHistory
    \/ Unmount

SpecOverlap == InitOverlap /\ [][NextOverlap]_vars

\* ChatPage with its session list: the mount effect's listSessions call, New
\* Session clicks and session switches, their responses in any order.
InitSessions == Mounted("chat") /\ budget = 0 /\ QueryIdle /\ overlap = MaxMsgFetch

NextSessions ==
    \/ SessionsResponse
    \/ MessagesResponse
    \/ SelectSession
    \/ CreateSession
    \/ CreateSessionSettled
    \/ CreateListSettled
    \/ Unmount

SpecSessions == InitSessions /\ [][NextSessions]_vars

\* LogsPage and its stored-log queries: filter changes, the Refresh button and
\* the answers in any order.
InitLogsPage ==
    /\ Mounted("logs") /\ budget = 0 /\ InOrder
    /\ logFilters = RefreshFilters("", "", "", "", "")
    /\ logPath = LogsPath(logFilters)

NextLogsPage ==
    \/ SetFilter
    \/ SetQueryText
    \/ RefreshClick
    \/ LogsResponse
    \/ LogsFailure
    \/ Unmount

SpecLogsPage == InitLogsPage /\ [][NextLogsPage]_vars

\* The operator's actions on each view and the requests they make; the
\* streams stay silent.
InitDispatch ==
    \E v \in {"robot", "skills", "heartbeat", "chat", "runtime", "conversation"} :
        Mounted(v) /\ budget = 0 /\ QueryIdle /\ InOrder

NextDispatch ==
    \/ ToggleConfirm
    \/ ClickNod
    \/ ClickAntenna
    \/ ClickLook
    \/ ClickSpeak
    \/ RobotActionSettled
    \/ ListSkillsSettled
    \/ RunSkill
    \/ RunSkillSettled
    \/ RunHeartbeat
    \/ EvaluateSettled
    \/ HeartbeatHistorySettled
    \/ HeartbeatAct
    \/ RobotAct
    \/ RuntimeActSettled
    \/ RuntimeStatusResponse
    \/ RobotStatusResponse
    \/ SessionsResponse
    \/ MessagesResponse
    \/ TypeText
    \/ Submit
    \/ PostMessageSettled
    \/ StartRealtime
    \/ StopRealtime
    \/ RealtimeSettled
    \/ RealtimeStatusSettled
    \/ StatusResponse
    \/ HistoryResponse
    \/ HistoryFailure
    \/ ReloadHistory
    \/ Unmount

SpecDispatch == InitDispatch /\ [][NextDispatch]_vars

\* api.logs called once on each filter object.
InitLogsQuery ==
    Mounted("none") /\ budget = 0 /\ InOrder /\ logFilters \in FilterInputs /\ logPath = Null

NextLogsQuery == LogsCall

SpecLogsQuery == InitLogsQuery /\ [][NextLogsQuery]_vars

\* ------------------------------------------------------------ DeviceTestPage
\* the streams of a kind whose tracks have not been stopped
LiveStreams(kind) == {i \in 1..Len(media) : media[i].kind = kind /\ media[i].live}

\* stream.getTracks().forEach((t) => t.stop())
StopTracks(m, ref) == IF ref = 0 THEN m ELSE [m EXCEPT ![ref].live = FALSE]

\* audioContextRef.current.close()
CloseContext(c, ref) == IF ref = 0 THEN c ELSE [c EXCEPT ![ref] = "closed"]

\* cancelAnimationFrame(animationRef.current), when the ref is set
CancelFrame(f, ref) == IF ref = 0 THEN f ELSE f \ {ref}

\* the acquisitions a run has made or still waits for
Acquisitions == Len(media) + micPending + camPending

\* the order testMic() acquires its handles in
AcquireOrder == <<"stream", "context", "analyser", "loop">>

\* the order of the statements of stopMic()
StopOrder == <<"loop", "stream", "context", "analyser">>

\* the handle is held: the ref stopMic() tests is set
Held(h) ==
    CASE h = "loop" -> animationRef # 0
      [] h = "stream" -> streamRef # 0
      [] h = "context" -> audioContextRef # 0
      [] OTHER -> analyserRef # 0

\* stopMic(): everything but micStatus, which its callers finish
StopMic ==
    /\ releaseLog' = SelectSeq(StopOrder, Held)
    /\ frames' = CancelFrame(frames, animationRef)
    /\ media' = StopTracks(media, streamRef)
    /\ streamRef' = 0
    /\ contexts' = CloseContext(contexts, audioContextRef)
    /\ audioContextRef' = 0
    /\ analyserRef' = 0
    /\ UNCHANGED animationRef

\* the setState calls of stopMic(), dropped by React once the view is gone
StopMicState ==
    /\ micLevel' = (IF view = "device" THEN 0 ELSE micLevel)
    /\ micActive' = (IF view = "device" THEN FALSE ELSE micActive)
    /\ micStatus' = (IF view = "device" THEN "" ELSE micStatus)

\* the Start mic test button (disabled while micActive): testMic() up to its await.
\* setMicStatus("Requesting microphone...") is overwritten by the
\* setMicStatus("") of stopMic() in the same batch.
StartMicTest ==
    /\ view = "device"
    /\ ~micActive
    /\ Acquisitions < MaxAcquire
    /\ StopMic /\ StopMicState
    /\ micPending' = micPending + 1
    /\ micStopped' = FALSE
    /\ UNCHANGED <<streamVars, camVars>>
    /\ UNCHANGED <<spkVars, notDevice>>

\* a requestAnimationFrame handle that is not in use
FreshFrame == CHOOSE h \in 1..(Cardinality(frames) + 2) : h \notin frames \cup {animationRef}

Levels == {0, 40}

\* testMic() after its await: getUserMedia resolved. The AudioContext and the
\* analyser are built, the first tick() runs, the probe is marked active.
MicGranted ==
    /\ micPending > 0
    /\ micPending' = micPending - 1
    /\ media' = Append(media, [kind |-> "audio", live |-> TRUE])
    /\ streamRef' = Len(media) + 1
    /\ contexts' = Append(contexts, "running")
    /\ audioContextRef' = Len(contexts) + 1
    /\ analyserRef' = Len(contexts) + 1
    /\ animationRef' = FreshFrame
    /\ frames' = frames \cup {FreshFrame}
    /\ \E avg \in Levels : micLevel' = (IF view = "device" THEN avg ELSE micLevel)
    /\ micActive' = (IF view = "device" THEN TRUE ELSE micActive)
    /\ micStatus' = (IF view = "device" THEN "Microphone active" ELSE micStatus)
    /\ UNCHANGED <<micStopped, releaseLog, streamVars, camVars>>
    /\ UNCHANGED <<spkVars, notDevice>>

\* testMic() after its await: getUserMedia resolved but new AudioContext()
\* throws; the catch block reports the error
MicContextFails ==
    /\ micPending > 0
    /\ micPending' = micPending - 1
    /\ media' = Append(media, [kind |-> "audio", live |-> TRUE])
    /\ streamRef' = Len(media) + 1
    /\ micStatus' = (IF view = "device" THEN "Error: AudioContext" ELSE micStatus)
    /\ UNCHANGED <<contexts, frames, audioContextRef, analyserRef, animationRef, micLevel, micActive,
                   micStopped, releaseLog>>
    /\ UNCHANGED <<streamVars, camVars>>
    /\ UNCHANGED <<spkVars, notDevice>>

\* testMic() after its await: getUserMedia rejected (permission, no device)
MicDenied ==
    /\ micPending > 0
    /\ micPending' = micPending - 1
    /\ micStatus' = (IF view = "device" THEN "Error: Permission denied" ELSE micStatus)
    /\ UNCHANGED <<media, contexts, frames, streamRef, audioContextRef, analyserRef, animationRef,
                   micLevel, micActive, micStopped, releaseLog>>
    /\ UNCHANGED <<streamVars, camVars>>
    /\ UNCHANGED <<spkVars, notDevice>>

\* a rendering frame: the browser runs one scheduled tick()
Frame ==
    /\ \E h \in frames :
          IF analyserRef = 0
          THEN /\ frames' = frames \ {h}
               /\ UNCHANGED <<animationRef, micLevel>>
          ELSE /\ frames' = (frames \ {h}) \cup {FreshFrame}
               /\ animationRef' = FreshFrame
               /\ \E avg \in Levels : micLevel' = (IF view = "device" THEN avg ELSE micLevel)
    /\ UNCHANGED <<media, contexts, micPending, streamRef, audioContextRef, analyserRef,
                   micActive, micStatus, micStopped, releaseLog>>
    /\ UNCHANGED <<streamVars, camVars>>
    /\ UNCHANGED <<spkVars, notDevice>>

\* the Stop button of the microphone test
StopMicClick ==
    /\ view = "device"
    /\ StopMic /\ StopMicState
    /\ micStopped' = TRUE
    /\ UNCHANGED micPending
    /\ UNCHANGED <<streamVars, camVars>>
    /\ UNCHANGED <<spkVars, notDevice>>

\* the Start camera button (disabled while cameraActive): testCamera() up to its await
StartCamera ==
    /\ view = "device"
    /\ ~cameraActive
    /\ Acquisitions < MaxAcquire
    /\ cameraStatus' = "Requesting camera"
    /\ camPending' = camPending + 1
    /\ UNCHANGED <<media, micVars, srcObject, cameraActive>>
    /\ UNCHANGED streamVars
    /\ UNCHANGED <<spkVars, notDevice>>

\* testCamera() after its await: getUserMedia resolved; videoEl is the element
\* the call captured
CameraGranted ==
    /\ camPending > 0
    /\ camPending' = camPending - 1
    /\ media' = Append(media, [kind |-> "video", live |-> TRUE])
    /\ srcObject' = Len(media) + 1
    /\ cameraActive' = (IF view = "device" THEN TRUE ELSE cameraActive)
    /\ cameraStatus' = (IF view = "device" THEN "Camera active" ELSE cameraStatus)
    /\ UNCHANGED micVars
    /\ UNCHANGED streamVars
    /\ UNCHANGED <<spkVars, notDevice>>

\* testCamera() after its await: getUserMedia rejected
CameraDenied ==
    /\ camPending > 0
    /\ camPending' = camPending - 1
    /\ cameraStatus' = (IF view = "device" THEN "Error: Permission denied" ELSE cameraStatus)
    /\ UNCHANGED <<media, micVars, srcObject, cameraActive>>
    /\ UNCHANGED streamVars
    /\ UNCHANGED <<spkVars, notDevice>>

\* the Stop camera button: stopCamera()
StopCamera ==
    /\ view = "device"
    /\ media' = StopTracks(media, srcObject)
    /\ srcObject' = 0
    /\ cameraActive' = FALSE
    /\ cameraStatus' = ""
    /\ UNCHANGED <<micVars, camPending>>
    /\ UNCHANGED streamVars
    /\ UNCHANGED <<spkVars, notDevice>>

\* the catch block of testSpeaker
SpeakerError == "Error: AudioContext failed"

\* ctx.close() of testSpeaker
CloseTone(t, c) == [t EXCEPT ![c] = "closed"]

\* the Play test tone button: new AudioContext() throws
TestSpeakerNoContext ==
    /\ view = "device"
    /\ speakerStatus' = SpeakerError
    /\ UNCHANGED <<tones, toneTimers, media, micVars, camVars>>
    /\ UNCHANGED streamVars
    /\ UNCHANGED notDevice

\* the Play test tone button: the context is created but setting up the tone
\* (oscillator, gain, connect, start) throws
TestSpeakerSetupFails ==
    /\ view = "device"
    /\ Len(tones) < MaxTones
    /\ tones' = Append(tones, "running")
    /\ speakerStatus' = SpeakerError
    /\ UNCHANGED <<toneTimers, media, micVars, camVars>>
    /\ UNCHANGED streamVars
    /\ UNCHANGED notDevice

\* the Play test tone button: testSpeaker() up to its await
TestSpeaker ==
    /\ view = "device"
    /\ Len(tones) < MaxTones
    /\ tones' = Append(tones, "running")
    /\ toneTimers' = toneTimers \cup {Len(tones) + 1}
    /\ speakerStatus' = "Playing test tone"
    /\ UNCHANGED <<media, micVars, camVars>>
    /\ UNCHANGED streamVars
    /\ UNCHANGED notDevice

\* testSpeaker() after its await: the 350 ms timer fired
ToneTimer ==
    /\ \E c \in toneTimers :
          /\ toneTimers' = toneTimers \ {c}
          /\ tones' = CloseTone(tones, c)
    /\ speakerStatus' = (IF view = "device" THEN "Test tone played" ELSE speakerStatus)
    /\ UNCHANGED <<media, micVars, camVars>>
    /\ UNCHANGED streamVars
    /\ UNCHANGED notDevice

\* what the teardown of DeviceTestPage runs: the cleanup of the unmount effect
UnmountCleanup == StopMic

\* DeviceTestPage is torn down
UnmountDevice ==
    /\ view = "device"
    /\ view' = "none"
    /\ UnmountCleanup
    /\ UNCHANGED <<micPending, micLevel, micActive, micStatus, micStopped>>
    /\ UNCHANGED <<streams, opened, budget, delivered, lastEv, camVars>>
    /\ UNCHANGED <<spkVars, notDevice>>

InitDevice == Mounted("device") /\ budget = 0 /\ QueryIdle /\ InOrder

NextDevice ==
    \/ StartMicTest
    \/ MicGranted
    \/ MicContextFails
    \/ MicDenied
    \/ Frame
    \/ StopMicClick
    \/ StartCamera
    \/ CameraGranted
    \/ CameraDenied
    \/ StopCamera
    \/ TestSpeakerNoContext
    \/ TestSpeakerSetupFails
    \/ TestSpeaker
    \/ ToneTimer
    \/ UnmountDevice

SpecDevice == InitDevice /\ [][NextDevice]_vars

\* What the browser guarantees to the page: a pending getUserMedia call
\* settles, a scheduled animation frame runs, a timer fires.
SpecDeviceLive ==
    /\ SpecDevice
    /\ WF_vars(MicGranted \/ MicContextFails \/ MicDenied)
    /\ WF_vars(CameraGranted \/ CameraDenied)
    /\ WF_vars(Frame)
    /\ WF_vars(ToneTimer)

\* ============================================================ properties
Last(s) == s[Len(s)]

\* the indices of the messages that carry an identifier
IndicesOf(msgs, id) == {i \in 1..Len(msgs) : msgs[i].id = id}

\* a chat.token or chat.final event is handled in this step
PatchStep == Len(patchLog') = Len(patchLog) + 1

\* the event a patch step handles
Patched == patchLog'[Len(patchLog')]

\* the live event delivered last is delivered once more in this step
ReplayStep == delivered' = delivered + 1 /\ lastEv' = lastEv

\* ------------------------------------------------------------ C1
\* C1: while a view is mounted, its capped list (ChatPage events, cap 30;
\* RuntimePage events, cap 80; LogsPage live tail, cap 100) holds
\* min(k, cap) entries after k append events, and never more than cap.
C1_CappedLength ==
    /\ view = "chat" => Len(chatEvents) = Min(delivered, ChatEventsCap)
    /\ view = "runtime" => Len(runtimeEvents) = Min(delivered, RuntimeEventsCap)
    /\ view = "logs" => Len(live) = Min(delivered, LiveCap)

C1_Witness == view = "logs" /\ delivered > LiveCap /\ Len(live) = LiveCap

\* ------------------------------------------------------------ C2
\* C2: the ConversationPage timeline never holds more than 200 entries.
C2_TimelineBounded == view = "conversation" => Len(timeline) <= HistoryLimit

\* ------------------------------------------------------------ C3
\* C3: a chat.token or chat.final event whose message_id matches no message
\* of the buffer appends one message carrying that identifier and content.
C3_AbsentIdAppends ==
    [][(PatchStep /\ IndicesOf(messages, Patched.payload.message_id) = {}) =>
          /\ Len(messages') = Len(messages) + 1
          /\ Last(messages').id = Patched.payload.message_id
          /\ Last(messages').content =
                 (IF Patched.type = "chat.token" THEN Patched.payload.token
                  ELSE Patched.payload.content)]_vars

\* ------------------------------------------------------------ C4
\* what a patch of a present identifier leaves alone: the number and order
\* of the messages and every other message
PatchKeepsOthers(id) ==
    /\ Len(messages') = Len(messages)
    /\ \A i \in 1..Len(messages) :
          /\ messages'[i].id = messages[i].id
          /\ messages[i].id # id => messages'[i] = messages[i]

\* C4 as stated: a chat.token or chat.final event for a present message_id
\* keeps the number and order of the messages and every other message, and
\* changes only the content field of the targeted message.
C4_OnlyContentChanges ==
    [][(PatchStep /\ IndicesOf(messages, Patched.payload.message_id) # {}) =>
          /\ PatchKeepsOthers(Patched.payload.message_id)
          /\ \A i \in IndicesOf(messages, Patched.payload.message_id) :
                messages'[i] = [messages[i] EXCEPT !.content = messages'[i].content]]_vars

\* C4 amended: as above, except that chat.final also sets the status of the
\* targeted message to "final"; chat.token changes its content only.
C4_PatchFrame ==
    [][(PatchStep /\ IndicesOf(messages, Patched.payload.message_id) # {}) =>
          /\ PatchKeepsOthers(Patched.payload.message_id)
          /\ \A i \in IndicesOf(messages, Patched.payload.message_id) :
                IF Patched.type = "chat.token"
                THEN messages'[i] = [messages[i] EXCEPT !.content = messages'[i].content]
                ELSE messages'[i] = [messages[i] EXCEPT !.content = messages'[i].content,
                                                        !.status = "final"]]_vars

C4_Witness ==
    /\ view = "chat"
    /\ \E k \in 1..Len(patchLog), j \in 1..Len(patchLog), i \in 1..Len(messages) :
          /\ patchLog[k].type = "chat.final" /\ patchLog[j].type = "chat.token"
          /\ patchLog[k].payload.message_id = messages[i].id
          /\ patchLog[j].payload.message_id = messages[i].id
          /\ messages[i].status = "final"

\* ------------------------------------------------------------ C5
\* the content the applied snapshot carries for a message
SnapshotContent(id) ==
    LET holders == {s \in 1..Len(SessionList) :
                       IndicesOf(Snapshot(SessionList[s].id), id) # {}}
        snap == Snapshot(SessionList[CHOOSE s \in holders : TRUE].id)
    IN snap[CHOOSE i \in IndicesOf(snap, id) : TRUE].content

\* t1 + ... + tn: the tokens of the log for one message, in delivery order
RECURSIVE TokensFor(_, _)
TokensFor(log, id) ==
    IF log = <<>> THEN ""
    ELSE LET ev == Head(log)
         IN (IF ev.type = "chat.token" /\ ev.payload.message_id = id
             THEN ev.payload.token ELSE "") \o TokensFor(Tail(log), id)

NoFinalFor(log, id) ==
    \A k \in 1..Len(log) : ~(log[k].type = "chat.final" /\ log[k].payload.message_id = id)

\* C5: after the snapshot holding message m with content c was applied, the
\* token deltas t1..tn delivered for m leave one message m whose content is
\* c + t1 + ... + tn, in delivery order.
C5_TokensConcatenate ==
    view = "chat" =>
        \A i \in 1..Len(messages) :
            NoFinalFor(patchLog, messages[i].id) =>
                /\ messages[i].content =
                       SnapshotContent(messages[i].id) \o TokensFor(patchLog, messages[i].id)
                /\ IndicesOf(messages, messages[i].id) = {i}

C5_Witness ==
    /\ view = "chat"
    /\ Len(messages) = 2 /\ messages[2].id = "m2" /\ messages[2].content = "Hi there!"
    /\ Len(patchLog) = 2 /\ patchLog[1].payload = [message_id |-> "m2", token |-> " there"]
    /\ patchLog[2].type = "chat.token"

\* ------------------------------------------------------------ C6
\* C6: a chat.final event delivered a second time adds no message and leaves
\* the buffer as the first delivery left it; applying the same final twice
\* to any buffer the view reaches equals applying it once.
C6_FinalIdempotent ==
    /\ [][(PatchStep /\ patchLog # <<>> /\ Patched = Last(patchLog)
             /\ Patched.type = "chat.final") => messages' = messages]_vars
    /\ [](\A id \in MessageIds, c \in FinalContents :
             LET p == [message_id |-> id, content |-> c]
             IN ApplyFinal(ApplyFinal(messages, p), p) = ApplyFinal(messages, p))

C6_Witness ==
    /\ view = "chat"
    /\ Len(patchLog) >= 2
    /\ Last(patchLog).type = "chat.final"
    /\ patchLog[Len(patchLog) - 1] = Last(patchLog)
    /\ \E i \in IndicesOf(messages, Last(patchLog).payload.message_id) :
          messages[i].content = Last(patchLog).payload.content

\* ------------------------------------------------------------ C7
\* C7: a live event delivered again with the same payload adds no second
\* entry to the ConversationPage timeline or to an event list.
C7_ReplayAddsNothing ==
    [][(ReplayStep /\ lastEv.type \in {"tool.event", "robot.feedback", "runtime.heartbeat",
                                        "process.log", "assistant.realtime.transcript",
                                        "assistant.tool"}) =>
          /\ timeline' = timeline
          /\ chatEvents' = chatEvents
          /\ runtimeEvents' = runtimeEvents
          /\ live' = live]_vars

C9_AtMostOneStream ==
    /\ Cardinality(LiveStreams("audio")) <= 1
    /\ Cardinality(LiveStreams("video")) <= 1

\* ------------------------------------------------------------ C10
\* C10: the teardown of DeviceTestPage releases every handle of an Active
\* session: the microphone's stream, analyser, context and sampling loop, and
\* the stream of the camera preview.
C10_TeardownReleases ==
    [][(view = "device" /\ view' = "none") =>
          /\ micActive =>
                /\ streamRef # 0 => ~media'[streamRef].live
                /\ audioContextRef # 0 => contexts'[audioContextRef] = "closed"
                /\ analyserRef' = 0
                /\ animationRef \notin frames'
          /\ cameraActive => (srcObject # 0 => ~media'[srcObject].live)]_vars

\* C11: each view holds at most one open push stream at any time: after a
\* session switch the only open stream is the one of the selected session (the
\* old one was closed before the new one was opened), and after the teardown
\* of the view no stream is open.
C11_OneOpenStream ==
    /\ Cardinality(streams) <= 1
    /\ (view = "none" => streams = {})
    /\ (view = "chat" /\ selected # "" => streams = {ChatTopic(selected)})

\* both sessions had a stream, the view was torn down afterwards
C11_Witness == view = "none" /\ opened = {ChatTopic("s1"), ChatTopic("s2")}

C13_StoppedStaysIdle == micStopped => (~micActive /\ micLevel = 0)

\* the confirmation marker of a robot action payload
Marker(payload) == "confirm" \in DOMAIN payload /\ payload.confirm = TRUE

\* this step issues a request of RobotPage
RobotDispatch == view = "robot" /\ Len(sent') = Len(sent) + 1

\* C14: the confirmation marker of a speak or look_at dispatch follows the
\* confirm toggle's value at the moment of dispatch: absent (not set) with the
\* toggle off, whatever it was at an earlier dispatch, and present with it on.
C14_MarkerFollowsToggle ==
    [][(RobotDispatch /\ Last(sent').body.action \in {"speak", "look_at"})
          => (Marker(Last(sent').body) <=> confirm)]_vars

\* a speak with the marker was followed by a speak without it, the toggle being off
C14_Witness ==
    /\ view = "robot" /\ ~confirm /\ Len(sent) = 2
    /\ sent[1].body.action = "speak" /\ Marker(sent[1].body)
    /\ sent[2].body.action = "speak" /\ ~Marker(sent[2].body)

\* C15: with the confirm toggle on at dispatch time, the payload of every
\* robot actuation (nod, antenna_feedback, look_at, speak) carries the marker.
C15_EveryActuationMarked == [][(RobotDispatch /\ confirm) => Marker(Last(sent').body)]_vars

\* the operations the operator dispatches as actions
ActionOps ==
    {"robotAction", "runtimeAct", "runSkill", "evaluateHeartbeat", "realtimeStart",
     "realtimeStop", "postMessage"}

\* the texts the mounted view renders
Shown ==
    {result, output, latest.json, rtStatus, robotStatus, convStatus}
        \cup {messages[i].content : i \in 1..Len(messages)}
        \cup {timeline[i].content : i \in 1..Len(timeline)}
        \cup {chatEvents[i] : i \in 1..Len(chatEvents)}
        \cup {runtimeEvents[i] : i \in 1..Len(runtimeEvents)}

\* this step settles an action with a failure
ActionFailed ==
    /\ Len(outcomes') = Len(outcomes) + 1
    /\ Last(outcomes').op \in ActionOps
    /\ ~Last(outcomes').result.ok

\* C16: when a dispatched action fails, the raw error text is shown in the
\* view and the action is not sent again.
C16_FailureSurfaced ==
    [][ActionFailed => (Last(outcomes').result.error \in Shown' /\ Len(sent') = Len(sent))]_vars

\* C17: every Request Client call issues exactly one request (none is issued
\* again for a call that settled), and a non-2xx response makes the call fail
\* with the raw response body as its error and without a value.
C17_OneRequestRawError ==
    /\ Len(sent) = Len(calls) + Len(outcomes)
    /\ \A i \in 1..Len(outcomes) :
          ~Ok(outcomes[i].response) =>
              /\ ~outcomes[i].result.ok
              /\ outcomes[i].result.error = outcomes[i].response.body
              /\ outcomes[i].result.value = NoValue

\* a call was answered 500
C17_Witness == \E i \in 1..Len(outcomes) : outcomes[i].response.status = 500

\* the error texts a failed fetch carries
ErrorTexts == {"Failed to fetch", "Internal Server Error"}

\* C18: a transport error from a snapshot or status fetch is shown in the view
\* as error text, never swallowed or replaced by an empty or default value.
C18_FetchErrorSurfaced ==
    [][(view = "conversation" /\ HistoryFailure) => (ErrorTexts \cap Shown' # {})]_vars

\* the data the views hold
Data ==
    <<messages, rtStatus, robotStatus, result, skills, output, latest, hbHistory, convStatus,
      timeline, text>>

\* this step dispatches an action and does nothing else with the Request Client
ActionDispatched == Len(sent') = Len(sent) + 1 /\ Len(outcomes') = Len(outcomes)

\* C19: no action updates view data optimistically: the step that dispatches
\* an action leaves the data of the view (and the typed text) unchanged, and
\* so does the step in which the action fails.
C19_NoOptimisticUpdate == [][(ActionDispatched \/ ActionFailed) => Data' = Data]_vars

\* a message post failed and the typed text is still in the input
C19_Witness ==
    /\ view = "chat" /\ text = " hi "
    /\ outcomes # <<>> /\ Last(outcomes).op = "postMessage" /\ ~Last(outcomes).result.ok

FilterKeys == <<"source", "level", "process_name", "event_type", "q", "limit">>

\* a filter was supplied with a non-empty value (a limit: a non-zero one)
Supplied(f, k) ==
    IF k = "limit" THEN f.limit # NoLimit /\ f.limit # 0 ELSE f[k] # Null /\ f[k] # ""

\* key=value as it stands in a query string
Pair(f, k) == k \o "=" \o (IF k = "limit" THEN ToString(f.limit) ELSE FormEncode(f[k]))

\* the supplied filters of f among keys, joined with &
RECURSIVE SuppliedPairs(_, _)
SuppliedPairs(f, keys) ==
    IF keys = <<>> THEN ""
    ELSE LET rest == SuppliedPairs(f, Tail(keys))
         IN IF ~Supplied(f, Head(keys)) THEN rest
            ELSE IF rest = "" THEN Pair(f, Head(keys))
            ELSE Pair(f, Head(keys)) \o "&" \o rest

\* C20: for every combination of the log filters the query string holds
\* exactly the filters supplied with a non-empty value, each with its value;
\* omitted filters are absent, and there is no "?" when none is supplied.
C20_QueryHasSuppliedFilters ==
    logPath # Null =>
        logPath = (IF SuppliedPairs(logFilters, FilterKeys) = "" THEN "/logs"
                   ELSE "/logs?" \o SuppliedPairs(logFilters, FilterKeys))

\* level=ERROR and process_name=runtime were supplied, nothing else
C20_Witness == logPath = "/logs?level=ERROR&process_name=runtime"
\* ------------------------------------------------------------ C21
\* the place of an entry in the buffer
ArrivalOf(e) == CHOOSE i \in 1..Len(timeline) : timeline[i] = e

\* C21: whatever the history loads and live events were, the rendered
\* ConversationPage timeline holds exactly the entries of the buffer, in
\* non-decreasing timestamp order, and entries of equal timestamp in the
\* order they were inserted.
C21_RenderedSorted ==
    view = "conversation" =>
        LET out == Ordered(timeline)
        IN /\ Len(out) = Len(timeline)
           /\ {out[i] : i \in 1..Len(out)} = {timeline[i] : i \in 1..Len(timeline)}
           /\ \A i \in 1..(Len(out) - 1) :
                 \/ LocaleCompare(out[i].ts, out[i + 1].ts) < 0
                 \/ /\ LocaleCompare(out[i].ts, out[i + 1].ts) = 0
                    /\ ArrivalOf(out[i]) < ArrivalOf(out[i + 1])

\* a loaded backlog and live events, with equal timestamps among them, that
\* the rendering had to reorder
C21_Witness ==
    /\ view = "conversation"
    /\ Len(timeline) > SmallHistory
    /\ \E i \in 1..Len(timeline) : timeline[i].kind = "status"
    /\ \E i, j \in 1..Len(timeline) : i < j /\ timeline[i].ts = timeline[j].ts
    /\ \E i \in 1..Len(timeline) : timeline[i].ts = "2026-01-01T07:00Z"
    /\ Ordered(timeline) # timeline

\* ------------------------------------------------------------ C22
\* C22: from an explicit microphone stop until the next start, no sampling
\* frame is scheduled, no microphone stream has live tracks, no audio context
\* is running, the analyser is dropped, the probe is not Active and the
\* published level is zero.
C22_StopReleasesAll ==
    (view = "device" /\ micStopped) =>
        /\ frames = {}
        /\ LiveStreams("audio") = {}
        /\ \A c \in 1..Len(contexts) : contexts[c] = "closed"
        /\ analyserRef = 0
        /\ ~micActive
        /\ micLevel = 0

\* ------------------------------------------------------------ C23
\* a failure is what the probe reports and no run of it is still under way
MicFailed == view = "device" /\ micStatus = "Error: AudioContext" /\ micPending = 0
SpeakerFailed == view = "device" /\ speakerStatus = SpeakerError /\ toneTimers = {}

\* C23: a microphone start that failed after getUserMedia had handed out the
\* stream leaves the probe in the Error state with no live microphone stream,
\* and a speaker test that failed leaves no audio context of it running.
C23_FailureReleases ==
    /\ MicFailed => LiveStreams("audio") = {}
    /\ SpeakerFailed => \A c \in 1..Len(tones) : tones[c] = "closed"

\* ------------------------------------------------------------ C24
\* the message of a failed acquisition
DeniedText == "Error: Permission denied"

\* the operator acts on the microphone, on the camera
MicAction == StartMicTest \/ StopMicClick
CameraAction == StartCamera \/ StopCamera

\* C24: a getUserMedia call that is rejected leaves the probe with a readable
\* error message and not Active; from then until the operator's next action
\* on that capability the message stays, the probe does not become Active and
\* no acquisition is started.
C24_DeniedKeepsError ==
    [][/\ MicDenied /\ view = "device" => micStatus' = DeniedText /\ ~micActive'
       /\ CameraDenied /\ view = "device" => cameraStatus' = DeniedText /\ ~cameraActive'
       /\ (micStatus = DeniedText /\ view' = "device" /\ ~MicAction) =>
              micStatus' = DeniedText /\ ~micActive' /\ micPending' <= micPending
       /\ (cameraStatus = DeniedText /\ view' = "device" /\ ~CameraAction) =>
              cameraStatus' = DeniedText /\ ~cameraActive' /\ camPending' <= camPending]_vars

\* ------------------------------------------------------------ C25
\* an event is dispatched in this step
DeliveryStep == delivered' = delivered + 1

\* what the views show and hold, apart from the stream itself
ViewState == <<view, chatVars, runtimeVars, logsVars, convVars, formVars>>

\* C25: when a stream delivers an event of a type the view has added no
\* listener for, no state of the view changes, the stream stays open and no
\* other stream is opened or closed.
C25_UnknownTypeIgnored ==
    [][(DeliveryStep /\ lastEv'.type = "unhandled") =>
           /\ UNCHANGED ViewState
           /\ UNCHANGED <<streams, opened>>
           /\ lastEv'.stream \in streams']_vars

\* a view that shows events it has handled is handed one of unknown type
\* and has more events to come
C25_Witness ==
    /\ lastEv.type = "unhandled"
    /\ chatEvents # <<>> \/ timeline # <<>> \/ runtimeEvents # <<>> \/ live # <<>>
    /\ lastEv.stream \in streams
    /\ budget > 0

\* ------------------------------------------------------------ C26
\* C26: when a listener that parses its payload is handed data that is not
\* JSON, the messages, the event list and the timeline stay as they are and
\* the stream stays open; an event with a well-formed payload that comes
\* after it is applied as usual.
C26_MalformedDropped ==
    [][/\ (DeliveryStep /\ Malformed(lastEv')) =>
              /\ UNCHANGED <<messages, chatEvents, timeline>>
              /\ UNCHANGED <<streams, opened>>
              /\ lastEv'.stream \in streams'
       /\ (DeliveryStep /\ consoleLog # <<>> /\ ~Malformed(lastEv')) =>
              /\ lastEv'.type = "tool.event" =>
                     chatEvents' = ChatPushEvent(ToolLine(lastEv'.payload), chatEvents)
              /\ lastEv'.type = "chat.token" =>
                     messages' = ApplyToken(messages, lastEv'.payload)
              /\ lastEv'.type = "assistant.realtime.transcript" =>
                     Len(timeline') = Len(timeline) + 1]_vars

\* a malformed event was dropped and a later well-formed one was applied
C26_Witness ==
    /\ consoleLog # <<>>
    /\ \/ /\ lastEv.type = "tool.event" /\ ~Malformed(lastEv)
          /\ chatEvents # <<>> /\ chatEvents[1] = ToolLine(lastEv.payload)
       \/ /\ lastEv.type = "assistant.realtime.transcript" /\ ~Malformed(lastEv)
          /\ timeline # <<>> /\ Last(timeline).kind = "transcript"

\* ------------------------------------------------------------ C27
\* C27: once no speaker test is under way, the status it left is final (tone
\* played, or an error) and every audio context the speaker tests acquired
\* has been released.
C27_SpeakerRunsRelease ==
    (view = "device" /\ toneTimers = {} /\ speakerStatus # "") =>
        /\ speakerStatus \in {"Test tone played", SpeakerError}
        /\ \A c \in 1..Len(tones) : tones[c] = "closed"

\* ------------------------------------------------------------ C28
\* the listMessages call i settles in this step
MessagesSettled(i) == msgFetch # <<>> /\ msgFetch' = RemoveAt(msgFetch, i)

\* C28: a listMessages response for a session that is not the selected one
\* any more leaves the message buffer as it is, so that the buffer never
\* shows the messages of a session other than the selected one in place of
\* its own.
C28_StaleSnapshotDiscarded ==
    [][\A i \in 1..Len(msgFetch) :
           (view = "chat" /\ MessagesSettled(i) /\ msgFetch[i] # selected) =>
               messages' = messages]_vars

\* ------------------------------------------------------------ C29
\* the identifiers of the timeline entries that live events created
LiveIds == {"uuid-" \o ToString(k) : k \in 1..delivered}

\* the chat.token and chat.final events the stream of the selected session
\* has delivered since the last snapshot was applied
SelectedLog == SelectSeq(patchLog, LAMBDA ev : ev.stream = ChatTopic(selected))

\* C29: a snapshot response does not undo the live events that came while it
\* was in flight: the timeline entries they created are still in the
\* ConversationPage timeline after loadHistory applies its rows, and the
\* tokens they carried are still in the content of their ChatPage message
\* after refreshMessages applies the messages of the selected session.
C29_LiveEventSurvivesSnapshot ==
    [][/\ (view = "conversation" /\ HistoryResponse) =>
              \A i \in 1..Len(timeline) :
                  timeline[i].id \in LiveIds =>
                      \E j \in 1..Len(timeline') : timeline'[j] = timeline[i]
       /\ \A i \in 1..Len(msgFetch) :
              (view = "chat" /\ MessagesSettled(i) /\ msgFetch[i] = selected) =>
                  \A m \in 1..Len(messages') :
                      NoFinalFor(SelectedLog, messages'[m].id) =>
                          messages'[m].content =
                              SnapshotContent(messages'[m].id)
                                  \o TokensFor(SelectedLog, messages'[m].id)]_vars

\* ------------------------------------------------------------ C30
\* C30: once DeviceTestPage is torn down, a state follows in which no
\* microphone and no camera stream has live tracks, whether or not a
\* getUserMedia call was still pending at the teardown.
C30_TeardownEventuallyReleases ==
    [](view = "none" => <>(LiveStreams("audio") \cup LiveStreams("video") = {}))

\* ------------------------------------------------------------ C31
\* createSession() returns: the listSessions call it awaited was answered 2xx
CreateDone(i) ==
    /\ view = "chat"
    /\ calls' = RemoveAt(calls, i)
    /\ Len(outcomes') > Len(outcomes)
    /\ Last(outcomes').result.ok

\* C31: a listSessions response changes the selection only when no session is
\* selected at the time it is applied, and once createSession() has gone
\* through, the created session is the selected one.
C31_SelectsOnlyWhenNone ==
    [][/\ (sessFetch' # sessFetch /\ selected' # selected) => selected = ""
       /\ \A i \in Pending({"listSessions"}) :
              CreateDone(i) => selected' = calls[i].arg.created]_vars

\* ------------------------------------------------------------ C32
\* C32: once every log query LogsPage issued has been answered, the stored
\* logs shown are the answer to the query issued last.
C32_ItemsAnswerLatestQuery ==
    (view = "logs" /\ logFetch = <<>> /\ consoleLog = <<>>) => items = StoredLogs(logPath)

\* ------------------------------------------------------------ C33
\* C33: after a switch from a session to another one the tool / robot timeline
\* holds only entries received on the stream of the session switched to; when
\* that stream has never been open before, the timeline is empty right after
\* the switch.
C33_TimelineOfSelectedSession ==
    [][(view = "chat" /\ selected # "" /\ selected' # selected
           /\ ChatTopic(selected') \notin opened) => chatEvents' = <<>>]_vars

\* ------------------------------------------------------------ C34
\* the capped list of the mounted view
CappedList ==
    CASE view = "chat" -> chatEvents
      [] view = "runtime" -> runtimeEvents
      [] view = "logs" -> live
      [] OTHER -> <<>>

\* the lines the n-th event of a burst on view v is shown as
LinesOf(v, n) ==
    CASE v = "chat" ->
             {ToolLine([tool_name |-> "search", phase |-> "start", message |-> Serial(n)]),
              RobotLine([state |-> "attention", message |-> Serial(n)])}
      [] v = "runtime" -> {"runtime.heartbeat: " \o Serial(n)}
      [] OTHER -> {Serial(n)}

\* C34: after k append events a capped list (ChatPage events, RuntimePage
\* events, LogsPage live tail) holds the min(k, cap) entries received last,
\* the newest first and the others in the order they had: an append over the
\* cap evicts the entry received first.
C34_OldestEvicted ==
    view \in {"chat", "runtime", "logs"} =>
        /\ Len(CappedList) = Min(delivered, CapOf(view))
        /\ \A i \in 1..Len(CappedList) : CappedList[i] \in LinesOf(view, delivered - i + 1)

\* the ChatPage list is full and entries have been evicted
C34_Witness ==
    /\ view = "chat"
    /\ delivered > ChatEventsCap + 1
    /\ chatEvents[ChatEventsCap] \in LinesOf("chat", delivered - ChatEventsCap + 1)
    /\ chatEvents[1] \in LinesOf("chat", delivered)

\* ------------------------------------------------------------ C35
\* the place of a handle in the acquisition order
AcquiredAt(h) == CHOOSE k \in 1..Len(AcquireOrder) : AcquireOrder[k] = h

\* C35: an explicit microphone stop releases the handles it holds in the
\* reverse of the order they were acquired in (stream, context, analysis
\* graph, sampling loop): loop, analysis graph, context, stream tracks.
C35_ReverseAcquisitionOrder ==
    micStopped =>
        \A i, j \in 1..Len(releaseLog) :
            i < j => AcquiredAt(releaseLog[i]) > AcquiredAt(releaseLog[j])

\* ------------------------------------------------------------ C36
\* the startRealtime() / stopRealtime() calls in progress: at their action
\* request or at the status fetch that follows it
RealtimeCalls == Pending({"realtimeStart", "realtimeStop", "realtimeStatus"})

\* C36: on ConversationPage busy is true exactly while a startRealtime() or
\* stopRealtime() call is in progress, whether its requests succeed or fail,
\* and no second call is dispatched while one is in progress.
C36_BusyWhileCallInProgress ==
    view = "conversation" =>
        /\ busy <=> RealtimeCalls # {}
        /\ Cardinality(RealtimeCalls) <= 1

\* a call failed and busy was reset; another call is now at its status fetch
C36_Witness ==
    /\ view = "conversation"
    /\ busy
    /\ Pending({"realtimeStatus"}) # {}
    /\ \E i \in 1..Len(outcomes) :
          outcomes[i].op \in {"realtimeStart", "realtimeStop"} /\ ~outcomes[i].result.ok

\* ------------------------------------------------------------ C37
\* the message testMic() publishes before it calls stopMic()
RequestingText == "Requesting microphone"

\* C37: while a getUserMedia call started by testMic() is pending, the status
\* the probe publishes is the requesting message.
C37_PendingShowsRequesting ==
    (view = "device" /\ micPending > 0) => micStatus = RequestingText

====
